---- MODULE Spec2Model ----
(***************************************************************************)
(* Verification model of the hyperbrowser demo applications:               *)
(*   - agents/budget-travel-agent  (Streamlit app, "budget")               *)
(*   - daytrip-planner             (Streamlit app, "daytrip")              *)
(*   - changelog-builder           (retry around the OpenAI call, the      *)
(*                                  categorized changelog)                 *)
(*   - article-tts                 (extraction payload -> ArticleContent)  *)
(*   - tweet-fetcher               (command line tool)                     *)
(*   - chat-with-youtube           (Streamlit app, "youtube")              *)
(* Every application has its own variables and its own specification; the  *)
(* variables of the other applications stay at their initial value.        *)
(*                                                                         *)
(* A Streamlit script run (one execution of main() after a user event) is  *)
(* one action.  st.rerun() leaves the flag `rerun` set; while it is set    *)
(* the only step possible is the next run of the script.                   *)
(* Strings the code inspects (lower(), `in`, ==) are sequences of          *)
(* one-character strings.                                                  *)
(***************************************************************************)
EXTENDS Integers, Sequences, FiniteSets, TLC

(***************************************************************************)
(* Bounds of the model                                                     *)
(***************************************************************************)
\* longest destination list the extraction returns
MaxDestinations == 11
\* number of distinct destination lists of one length
MaxListIds == 2
\* entries the st.cache_data of take_screenshot may hold (it never evicts)
MaxCached == 2
\* tabs of a page whose "Discover" button the user presses (the first ones)
MaxDiscover == 1
\* remote sessions the `session` command creates
MaxSessions == 2
\* commits of one comparison
MaxCommits == 3
\* exchanges chat_history may hold when a question is asked
MaxHistory == 6
\* URLs the user enters in the YouTube chat app
MaxUrlEntries == 2
\* model calls that fail between two presses of Clear Chat History
MaxApiErrors == 1
\* calls of take_screenshot that miss the cache
MaxCalls == 2

(***************************************************************************)
(* Strings                                                                 *)
(***************************************************************************)
\* str.lower() on one character of the alphabet the model uses
LowerChar(c) ==
  CASE c = "M" -> "m"
    [] c = "A" -> "a"
    [] c = "B" -> "b"
    [] c = "D" -> "d"
    [] c = "F" -> "f"
    [] c = "R" -> "r"
    [] c = "Q" -> "q"
    [] c = "C" -> "c"
    [] c = "T" -> "t"
    [] c = "E" -> "e"
    [] c = "S" -> "s"
    [] OTHER -> c

\* str.lower()
Lower(s) == [i \in 1..Len(s) |-> LowerChar(s[i])]

\* Python's `sub in s` on strings
Contains(sub, s) ==
  \E i \in 0..(Len(s) - Len(sub)) : SubSeq(s, i + 1, i + Len(sub)) = sub

Madrid == <<"M", "a", "d", "r", "i", "d">>
madrid == <<"m", "a", "d", "r", "i", "d">>
Qwx == <<"Q", "w", "x">>
MadridDisplay == <<"M", "a", "d", "r", "i", "d", ",", " ", "E", "S">>
Metz == <<"M", "e", "t", "z">>
metz == <<"m", "e", "t", "z">>
MetzDisplay == <<"M", "e", "t", "z", ",", " ", "F", "R">>
EmptyStr == <<>>
\* Python's None where a string is expected
NoneStr == <<"<None>">>

city == <<"c", "i", "t", "y">>
town == <<"t", "o", "w", "n">>

(***************************************************************************)
(* Pagination arithmetic shared by both display_travel_data functions      *)
(***************************************************************************)
page_size == 5

\* num_pages computed by floor division
NumPagesFloor(total_destinations) == total_destinations \div page_size

\* num_pages = (total_destinations + page_size - 1) // page_size
NumPages(total_destinations) == (total_destinations + page_size - 1) \div page_size

\* start_idx = (page_number - 1) * page_size          (0-based)
StartIdx(page_number) == (page_number - 1) * page_size

\* end_idx = min(start_idx + page_size, total_destinations)   (exclusive)
EndIdx(page_number, total_destinations) ==
  IF StartIdx(page_number) + page_size < total_destinations
    THEN StartIdx(page_number) + page_size
    ELSE total_destinations

\* travel_data[start_idx:end_idx]
PageSlice(travel_data, page_number) ==
  SubSeq(travel_data, StartIdx(page_number) + 1,
         EndIdx(page_number, Len(travel_data)))

\* The destination lists an extraction can return: list `id` of length n
\* holds the destinations id*100+1 .. id*100+n.
MkList(id, n) == [i \in 1..n |-> id * 100 + i]

VARIABLES
  \* ---- budget travel agent: st.session_state
  from_location, end_location, page_number, search_button_clicked,
  \* the "Trip Duration" selectbox
  trip_duration,
  \* module-level openai_api_key is set (truthy)
  openai_api_key,
  \* st.cache_data of take_screenshot: key -> "miss" | "none" | "shot"
  screenshot_cache,
  \* max_value of the "Page" number_input rendered by the last run, 0 if none
  page_input,
  \* st.rerun() was called: the script is about to run again
  rerun,
  \* what the last run did
  b_msg, b_created, b_travel_data, b_tabs, b_key

bvars == <<from_location, end_location, page_number, search_button_clicked,
           trip_duration, openai_api_key, screenshot_cache, page_input, rerun,
           b_msg, b_created, b_travel_data, b_tabs, b_key>>

VARIABLES
  \* ---- changelog builder: one call of generate_openai_changelog
  \* where the call stands: "idle" | "attempt" | "sleep" | "done"
  r_pc,
  \* comparison_data is non-empty; OPENAI_API_KEY is set
  r_has_data, r_has_key,
  \* what the OpenAI API answers to the 1st, 2nd, ... request
  r_script,
  \* tenacity's attempt_number; requests sent so far; the sleeps so far
  r_attempt, r_calls, r_waits,
  \* what call_openai_api raised ("" when nothing); the string returned by
  \* generate_openai_changelog, as its parts (<< >> while running)
  r_raised, r_result

rvars == <<r_pc, r_has_data, r_has_key, r_script, r_attempt, r_calls, r_waits,
           r_raised, r_result>>

VARIABLES
  \* ---- daytrip planner validate_city: one call
  \* the argument; the geocoder's answer; "pending" | "True" | "False" | "raised"
  v_city_name, v_response, v_result

vvars == <<v_city_name, v_response, v_result>>

VARIABLES
  \* ---- article-tts: the URL text input, st.session_state.article_content,
  \* the payload of the last extraction job, the messages of the last run
  a_url, a_article_content, a_payload, a_msg

avars == <<a_url, a_article_content, a_payload, a_msg>>

VARIABLES
  \* ---- display_travel_data of either travel app, called on one list:
  \* which app's function; the list; st.session_state.page_number; the
  \* result of the last call (<< >> before the first); the tabs rendered for
  \* each page so far (<< >>: not rendered yet)
  pg_app, pg_list, pg_page_number, pg_out, pg_pages

pvars == <<pg_app, pg_list, pg_page_number, pg_out, pg_pages>>

VARIABLES
  \* ---- daytrip planner
  \* text of the "Enter your starting city:" input; OPENAI_API_KEY is set
  d_input, d_has_key,
  \* st.session_state
  d_from_location, d_page_number, d_selected_destination, d_show_modal,
  \* st.cache_resource of cached_browser_ws_url: "miss" | "ok" | "no_endpoint"
  d_ws,
  \* st.cache_data of cached_capture_explore_page and of
  \* cached_extract_travel_data, per lower-cased city
  d_capture, d_extract,
  \* the last run: the event that started it, page_number when it started,
  \* whether the body of a cached function ran, what it showed, the list
  \* handed to display_travel_data, the tabs, max_value of the Page control
  \* (0 if none), st.rerun() was called
  d_event, d_before, d_recomputed, d_msg, d_travel_data, d_tabs, d_page_input,
  d_rerun

dvars == <<d_input, d_has_key, d_from_location, d_page_number,
           d_selected_destination, d_show_modal, d_ws, d_capture, d_extract,
           d_event, d_before, d_recomputed, d_msg, d_travel_data, d_tabs,
           d_page_input, d_rerun>>

VARIABLES
  \* ---- tweet-fetcher CLI: one process at a time
  \* the command of the current (or last) process and where it stands:
  \* "idle" | "params" | "extract" | "sleep"; the extraction it is at
  t_cmd, t_pc, t_kind,
  \* PROFILE_ID of .env; content of .profile (0: no file); settings.PROFILE_ID
  \* as loaded when the process started (0: None)
  t_env_profile, t_profile_file, t_settings_profile,
  \* remote profiles and sessions created so far; the sessions still running
  t_profiles, t_sessions, t_live,
  \* .session, <handle>_tweets.json, <handle>_followers.json
  t_session_file, t_tweets_file, t_followers_file,
  \* the id the last successful `session` command wrote to .session
  t_last_written,
  \* this process: .session when it started, files it wrote or removed,
  \* profile ids its extractions used, profiles it created, remote calls
  \* outstanding, extractions that failed, ids it asked the service to stop,
  \* how it ended ("running" | "ok" | "raised"), what it reported
  t_before, t_written, t_used, t_created, t_outstanding, t_failed, t_stops,
  t_exit, t_report

tvars == <<t_cmd, t_pc, t_kind, t_env_profile, t_profile_file,
           t_settings_profile, t_profiles, t_sessions, t_live, t_session_file,
           t_tweets_file, t_followers_file, t_last_written, t_before,
           t_written, t_used, t_created, t_outstanding, t_failed, t_stops,
           t_exit, t_report>>

VARIABLES
  \* ---- take_screenshot waiting for the results spinner: one call
  \* "loop" | "after" | "done"; what spinner_element.is_visible() answers to
  \* the 1st, 2nd, ... poll; the loop variable i; isVisible; polls made;
  \* what the call returned ("running" | "none" | "shot"); the st.error shown
  s_pc, s_script, s_i, s_isVisible, s_polls, s_ret, s_error

svars == <<s_pc, s_script, s_i, s_isVisible, s_polls, s_ret, s_error>>

VARIABLES
  \* ---- generate_categorized_changelog: one call
  \* "loop" | "done"; the messages of comparison_data["commits"]; commits
  \* handled so far; the six lists (of positions in the input); the sections
  \* of the returned changelog
  c_pc, c_commits, c_i, c_lists, c_out

cvars == <<c_pc, c_commits, c_i, c_lists, c_out>>

VARIABLES
  \* ---- chat-with-youtube: the Streamlit script of main()
  \* value of the URL text input; keys present in st.session_state
  y_url, y_keys,
  \* st.session_state.transcript / video_title / video_id
  y_transcript, y_video_title, y_video_id,
  \* st.session_state.chat_history / api_history
  y_chat_history, y_api_history,
  \* history variable: for every entry of chat_history, the video whose
  \* transcript was sent with the question
  y_about,
  \* the last run: the event that started it, what its fetch did ("none" when
  \* it made none), whether it created a remote session, the messages of the
  \* request it sent to the model (empty when it sent none), the errors it
  \* displayed
  y_event, y_fetch, y_created, y_request, y_errors,
  \* number of URLs entered so far
  y_entries,
  \* the chat input and the Clear button were drawn by the last run;
  \* st.rerun() was called
  y_shown, y_rerun

yvars == <<y_url, y_keys, y_transcript, y_video_title, y_video_id, y_chat_history, y_api_history, y_about, y_event, y_fetch, y_created, y_request, y_errors, y_entries, y_shown, y_rerun>>

VARIABLES
  \* ---- process_screenshot / crop_screenshot: one call
  \* the variant ("budget" | "daytrip"); width and height of the capture;
  \* "start" | "opened" | "cropping" | "saved" | "done" | "raised"
  i_app, i_width, i_height, i_pc,
  \* the temporary files: file number -> the box <<left, top, right, bottom>>
  \* of the capture the file holds (<<0, 0, 0, 0>> for an empty file);
  \* the file process_screenshot reads; the file it returned (0: none)
  i_files, i_path, i_ret

ivars == <<i_app, i_width, i_height, i_pc, i_files, i_path, i_ret>>

VARIABLES
  \* ---- take_screenshot: the remote session of each call (cache misses)
  \* "idle" | "connect" | "try" | "finally"; position in TakeSteps; an
  \* end_location was given
  k_pc, k_step, k_end_location,
  \* calls begun; the session the current or last call created (0: none);
  \* the remote sessions that are running
  k_calls, k_session, k_live,
  \* how the last call ended: "none" | "path" | "None" | "raised"; the
  \* value the try block is about to return; the st.error texts of the call
  k_ret, k_pending, k_errors

kvars == <<k_pc, k_step, k_end_location, k_calls, k_session, k_live, k_ret, k_pending, k_errors>>

vars == <<bvars, rvars, vvars, avars, pvars, dvars, tvars, svars, cvars, yvars, ivars, kvars>>

\* The variables of the other applications
notBudget == <<rvars, vvars, avars, pvars, dvars, tvars, svars, cvars, yvars, ivars, kvars>>
notRetry == <<bvars, vvars, avars, pvars, dvars, tvars, svars, cvars, yvars, ivars, kvars>>
notValidate == <<bvars, rvars, avars, pvars, dvars, tvars, svars, cvars, yvars, ivars, kvars>>
notArticle == <<bvars, rvars, vvars, pvars, dvars, tvars, svars, cvars, yvars, ivars, kvars>>
notPaginate == <<bvars, rvars, vvars, avars, dvars, tvars, svars, cvars, yvars, ivars, kvars>>
notDaytrip == <<bvars, rvars, vvars, avars, pvars, tvars, svars, cvars, yvars, ivars, kvars>>
notTweet == <<bvars, rvars, vvars, avars, pvars, dvars, svars, cvars, yvars, ivars, kvars>>
notSpinner == <<bvars, rvars, vvars, avars, pvars, dvars, tvars, cvars, yvars, ivars, kvars>>
notCategorize == <<bvars, rvars, vvars, avars, pvars, dvars, tvars, svars, yvars, ivars, kvars>>
notYoutube == <<bvars, rvars, vvars, avars, pvars, dvars, tvars, svars, cvars, ivars, kvars>>
notImage == <<bvars, rvars, vvars, avars, pvars, dvars, tvars, svars, cvars, yvars, kvars>>
notTake == <<bvars, rvars, vvars, avars, pvars, dvars, tvars, svars, cvars, yvars, ivars>>

(***************************************************************************)
(* External collaborators                                                  *)
(***************************************************************************)
\* What the OpenStreetMap Nominatim search answers (limit=1) for the inputs of
\* the model: a list of at most one result.  Madrid and Metz are known
\* cities; the geocoder knows nothing about Qwx or the empty query.
Nominatim(q) ==
  IF Lower(q) = madrid
    THEN << [addresstype |-> city, display_name |-> MadridDisplay] >>
    ELSE IF Lower(q) = metz
      THEN << [addresstype |-> city, display_name |-> MetzDisplay] >>
      ELSE << >>

\* st.number_input(min_value, max_value, value, key): raises a
\* StreamlitAPIException when value lies outside [min_value, max_value];
\* otherwise returns the number the user set in the event that started this
\* run (user_value, 0 when the user did not touch the widget) if the widget
\* offers it, else `value`.
NumberInput(min_value, max_value, value, user_value) ==
  IF value < min_value \/ value > max_value
    THEN [raised |-> TRUE, number |-> value]
    ELSE [raised |-> FALSE,
          number |-> IF user_value >= min_value /\ user_value <= max_value
                       THEN user_value ELSE value]

\* The lists a vision extraction returns in the application models: the empty
\* list and, for every page count, the lists whose last page holds one entry
ListLengths == {n \in 0..MaxDestinations : n = 0 \/ n % page_size = 1}

TravelLists == {MkList(id, n) : id \in 1..MaxListIds, n \in ListLengths}

\* Result of extract_travel_data_from_image: None (the call failed and the
\* exception was printed) or a list of destinations
Analyses ==
  {[none |-> TRUE, data |-> << >>]}
    \cup {[none |-> FALSE, data |-> l] : l \in TravelLists}

(***************************************************************************)
(* Budget travel agent                                                     *)
(***************************************************************************)
StartInputs == {EmptyStr, Madrid, Qwx}
EndInputs == {NoneStr, Qwx}
\* st.selectbox("Trip Duration", ["Weekend", "1 Week", "2 Weeks"]); the model
\* offers the first two
TripDurations == {"Weekend", "1 Week"}

ScreenshotKeys == (StartInputs \ {EmptyStr}) \X EndInputs \X TripDurations

\* How one execution of the body of take_screenshot ends
TakeOutcomes == {"shot", "none", "create_raises", "connect_raises"}

\* budget-travel-agent validate_city: (True, display_name) when the geocoder
\* has a result whose display_name contains the input, ignoring case
ValidateCityBudget(city_name) ==
  LET data == Nominatim(city_name)
  IN IF data # << >> /\ Len(data) > 0
        /\ Contains(Lower(city_name), Lower(data[1].display_name))
       THEN [valid |-> TRUE, name |-> data[1].display_name]
       ELSE [valid |-> FALSE, name |-> NoneStr]

\* @st.cache_data take_screenshot(start_location, end_location, trip_duration):
\* a cached key returns the stored value without running the body; otherwise
\* the body runs, creates a remote browser session and ends as `outcome` says.
\* A returned value (a path or None) is cached, a raised exception is not.
take_screenshot(cache, key, outcome) ==
  IF cache[key] # "miss"
    THEN [ret |-> cache[key], raised |-> FALSE, created |-> FALSE, cache |-> cache]
    ELSE CASE outcome = "create_raises" ->
                [ret |-> "none", raised |-> TRUE, created |-> FALSE, cache |-> cache]
           [] outcome = "connect_raises" ->
                [ret |-> "none", raised |-> TRUE, created |-> TRUE, cache |-> cache]
           [] OTHER ->
                [ret |-> outcome, raised |-> FALSE, created |-> TRUE,
                 cache |-> [cache EXCEPT ![key] = outcome]]

\* budget display_travel_data(travel_data, from_location) with the session's
\* page_number `stored`; user_value is the user's input to the Page control.
DisplayBudget(travel_data, stored, user_value) ==
  IF travel_data = << >>
    THEN [ret |-> FALSE, raised |-> FALSE, page_number |-> stored, rerun |-> FALSE,
          tabs |-> << >>, page_input |-> 0]
    ELSE LET total_destinations == Len(travel_data)
             num_pages == NumPages(total_destinations)
             w == NumberInput(1, num_pages, stored, user_value)
         IN IF num_pages > 1
              THEN IF w.raised
                     THEN [ret |-> FALSE, raised |-> TRUE, page_number |-> stored,
                           rerun |-> FALSE, tabs |-> << >>, page_input |-> 0]
                     ELSE IF w.number # stored
                            THEN [ret |-> FALSE, raised |-> FALSE,
                                  page_number |-> w.number, rerun |-> TRUE,
                                  tabs |-> << >>, page_input |-> num_pages]
                            ELSE [ret |-> TRUE, raised |-> FALSE,
                                  page_number |-> stored, rerun |-> FALSE,
                                  tabs |-> PageSlice(travel_data, w.number),
                                  page_input |-> num_pages]
              ELSE [ret |-> TRUE, raised |-> FALSE, page_number |-> 1,
                    rerun |-> FALSE, tabs |-> PageSlice(travel_data, 1),
                    page_input |-> 0]

\* `if not st.session_state.search_button_clicked:` right after the flag was
\* set to True: the guard of the validation block
RunsValidation(clicked) == ~clicked

\* The validation block of main once both cities went through validate_city
\* (vs, ve): what it leaves behind.  abort: the error shown before `return`
\* ("" when none); start/end: the local start_location/end_location
\* afterwards, also stored in the session when a city was renamed;
\* location_reset: st.rerun() follows.
BudgetValidated(start_location, end_location_in, vs, ve) ==
  IF ~vs.valid
    THEN [abort |-> "invalid_start", start |-> start_location,
          end |-> end_location_in, location_reset |-> FALSE]
    ELSE IF ~ve.valid
      THEN [abort |-> "invalid_end",
            start |-> IF vs.name # start_location /\ vs.name # NoneStr
                        THEN vs.name ELSE start_location,
            end |-> end_location_in, location_reset |-> FALSE]
      ELSE [abort |-> "",
            start |-> IF vs.name # start_location /\ vs.name # NoneStr
                        THEN vs.name ELSE start_location,
            end |-> IF ve.name # end_location_in /\ ve.name # NoneStr
                      THEN ve.name ELSE end_location_in,
            location_reset |->
              \/ vs.name # start_location /\ vs.name # NoneStr
              \/ ve.name # end_location_in /\ ve.name # NoneStr]

\* The validation block of main: the start location is validated, the
\* destination only when it is not None
BudgetValidation(start_location, end_location_in) ==
  BudgetValidated(start_location, end_location_in,
                  ValidateCityBudget(start_location),
                  IF end_location_in # NoneStr
                    THEN ValidateCityBudget(end_location_in)
                    ELSE [valid |-> TRUE, name |-> NoneStr])

\* main after display_travel_data returned or raised (d): the state the run
\* leaves.  An exception of the page control is caught by `except Exception`.
BudgetShown(b, key, data, d) ==
  [b EXCEPT !.msg = IF d.raised THEN "exception_number_input"
                    ELSE IF d.rerun THEN "rerun" ELSE "shown",
            !.page_number = d.page_number,
            !.rerun = d.rerun,
            !.page_input = d.page_input,
            !.tabs = d.tabs,
            !.travel_data = data,
            !.key = key]

\* main from the call of take_screenshot on (its result is ts)
BudgetSearch(b, key, ts, user_value, analysis) ==
  IF ts.raised
    THEN [b EXCEPT !.msg = "exception_take_screenshot", !.created = ts.created]
    ELSE IF ts.ret = "none"
      THEN [b EXCEPT !.msg = "no_screenshot", !.cache = ts.cache,
                     !.created = ts.created]
      ELSE IF ~openai_api_key
        THEN [b EXCEPT !.msg = "no_openai_key", !.cache = ts.cache,
                       !.created = ts.created]
        ELSE IF analysis.none \/ analysis.data = << >>
          THEN [b EXCEPT !.msg = "no_travel_data", !.cache = ts.cache,
                         !.created = ts.created]
          ELSE BudgetShown([b EXCEPT !.cache = ts.cache, !.created = ts.created],
                           key, analysis.data,
                           DisplayBudget(analysis.data, page_number, user_value))

\* main from the validation block on (its result is v); clicked is the
\* session's search_button_clicked
BudgetFromValidation(base, v, clicked, duration, user_value, outcome, analysis) ==
  IF v.abort # ""
    THEN [base EXCEPT !.msg = v.abort, !.search_button_clicked = clicked]
    ELSE IF v.location_reset
      THEN [base EXCEPT !.msg = "rerun", !.rerun = TRUE,
                        !.search_button_clicked = clicked,
                        !.from_location = v.start, !.end_location = v.end]
      ELSE BudgetSearch([base EXCEPT !.search_button_clicked = clicked],
                        <<v.start, v.end, duration>>,
                        take_screenshot(screenshot_cache,
                                        <<v.start, v.end, duration>>, outcome),
                        user_value, analysis)

\* main from the button test on: sbc is search_button_clicked after the two
\* text inputs were compared with the session.  Line 469 sets the flag and
\* line 470 tests it.
BudgetFromButton(base, sbc, start_in, end_in, duration, button, user_value, outcome, analysis) ==
  IF ~(button \/ sbc)
    THEN base
    ELSE IF start_in = EmptyStr
      THEN [base EXCEPT !.msg = "enter_start"]
      ELSE BudgetFromValidation(
             base,
             IF RunsValidation(TRUE)
               THEN BudgetValidation(start_in, end_in)
               ELSE [abort |-> "", start |-> start_in, end |-> end_in,
                     location_reset |-> FALSE],
             TRUE, duration, user_value, outcome, analysis)

\* search_button_clicked after the text inputs were read (lines 448-462)
ClickedAfterInputs(start_in, end_in) ==
  IF end_in # end_location THEN FALSE
  ELSE IF start_in # from_location THEN FALSE
  ELSE search_button_clicked

\* One run of the budget agent's main(): start_in, end_in, duration are the
\* widget values, button the "Search Travel Options" button, user_value the
\* user's input to the Page control (0: none); outcome and analysis are what
\* the browser automation and the vision extraction answer if they are called.
\* The result is the state the run leaves; travel_data and key are the list
\* last handed to display_travel_data and the search it came from.
BudgetMain(start_in, end_in, duration, button, user_value, outcome, analysis) ==
  BudgetFromButton(
    [from_location |-> start_in, end_location |-> end_in,
     page_number |-> page_number,
     search_button_clicked |-> ClickedAfterInputs(start_in, end_in),
     cache |-> screenshot_cache, page_input |-> 0, rerun |-> FALSE,
     msg |-> "idle", created |-> FALSE, travel_data |-> b_travel_data,
     tabs |-> << >>, key |-> b_key],
    ClickedAfterInputs(start_in, end_in),
    start_in, end_in, duration, button, user_value, outcome, analysis)

\* Number of entries a cache of take_screenshot holds
Cached(cache) == Cardinality({k \in ScreenshotKeys : cache[k] # "miss"})

\* extract_travel_data_from_image returned None
NoAnalysis == [none |-> TRUE, data |-> << >>]

\* The answers of the collaborators a run can observe: an outcome of the
\* browser automation only when the body of take_screenshot runs, an analysis
\* only when extract_travel_data_from_image is called.
OutcomeChoices(start_in, end_in, duration, button) ==
  IF BudgetMain(start_in, end_in, duration, button, 0, "shot", NoAnalysis).created
    THEN TakeOutcomes ELSE {"shot"}

AnalysisChoices(start_in, end_in, duration, button, outcome) ==
  IF BudgetMain(start_in, end_in, duration, button, 0, outcome, NoAnalysis).msg
       = "no_travel_data"
    THEN Analyses ELSE {NoAnalysis}

BudgetRun(start_in, end_in, duration, button, user_value) ==
  \E outcome \in OutcomeChoices(start_in, end_in, duration, button) :
    \E analysis \in AnalysisChoices(start_in, end_in, duration, button, outcome) :
       LET r == BudgetMain(start_in, end_in, duration, button, user_value,
                           outcome, analysis)
       IN /\ Cached(r.cache) <= MaxCached
          /\ from_location' = r.from_location
          /\ end_location' = r.end_location
          /\ page_number' = r.page_number
          /\ search_button_clicked' = r.search_button_clicked
          /\ trip_duration' = duration
          /\ screenshot_cache' = r.cache
          /\ page_input' = r.page_input
          /\ rerun' = r.rerun
          /\ b_msg' = r.msg
          /\ b_created' = r.created
          /\ b_travel_data' = r.travel_data
          /\ b_tabs' = r.tabs
          /\ b_key' = r.key
          /\ UNCHANGED openai_api_key
          /\ UNCHANGED notBudget

\* The user edits the "Starting Location" text input
BudgetEditStart ==
  /\ ~rerun
  /\ \E s \in StartInputs \ {from_location} :
       BudgetRun(s, end_location, trip_duration, FALSE, 0)

\* The user edits the "Destination" text input
BudgetEditEnd ==
  /\ ~rerun
  /\ \E e \in EndInputs \ {end_location} :
       BudgetRun(from_location, e, trip_duration, FALSE, 0)

\* The user picks another trip duration
BudgetSelectDuration ==
  /\ ~rerun
  /\ \E d \in TripDurations \ {trip_duration} :
       BudgetRun(from_location, end_location, d, FALSE, 0)

\* The user presses "Search Travel Options"
BudgetClickSearch ==
  /\ ~rerun
  /\ BudgetRun(from_location, end_location, trip_duration, TRUE, 0)

\* The user sets the "Page" number input to another page it offers
BudgetChangePage ==
  /\ ~rerun
  /\ page_input > 0
  /\ \E p \in (1..page_input) \ {page_number} :
       BudgetRun(from_location, end_location, trip_duration, FALSE, p)

\* The run that st.rerun() asked for
BudgetRerun ==
  /\ rerun
  /\ BudgetRun(from_location, end_location, trip_duration, FALSE, 0)

BudgetNext ==
  \/ BudgetEditStart
  \/ BudgetEditEnd
  \/ BudgetSelectDuration
  \/ BudgetClickSearch
  \/ BudgetChangePage
  \/ BudgetRerun

(***************************************************************************)
(* Changelog builder: call_openai_api under tenacity's @retry, called by    *)
(* generate_openai_changelog                                               *)
(***************************************************************************)
\* stop_after_attempt(3)
stop_max_attempt_number == 3
\* wait_exponential(multiplier=1, min=2, max=10)
wait_multiplier == 1
wait_min == 2
wait_max == 10

\* Requests of one call whose answers the model fixes in advance
ScriptLen == 4

\* Answers of client.chat.completions.create: a completion with or without
\* content, a transient failure (connection, timeout, rate limit, 5xx), a
\* rejected request (400) or a rejected credential (401)
ApiOutcomes == {"ok", "ok_empty", "transient", "invalid_request", "authentication"}
ApiFailures == {"transient", "invalid_request", "authentication"}

\* return response.choices[0].message.content or "N/A"
Completion(outcome) == IF outcome = "ok" THEN "content" ELSE "N/A"

\* @retry without retry=: tenacity's default retry_if_exception_type()
\* asks for another attempt after every exception
RetryOn(outcome) == outcome \in ApiFailures

\* stop_after_attempt(3) mistaken for "3 retries": a 4th attempt is made
StopAfterAttemptLate(attempt_number) == attempt_number > stop_max_attempt_number

\* stop_after_attempt(2) in place of 3: one retry only
StopAfterAttemptEarly(attempt_number) == attempt_number >= stop_max_attempt_number - 1

\* stop_after_attempt(3): no further attempt once attempt_number >= 3
StopAfterAttempt(attempt_number) == attempt_number >= stop_max_attempt_number

Pow2(n) == IF n <= 0 THEN 1 ELSE IF n = 1 THEN 2 ELSE IF n = 2 THEN 4
           ELSE IF n = 3 THEN 8 ELSE 16

\* wait_exponential without its lower limit
WaitExponentialNoMin(attempt_number) ==
  IF wait_multiplier * Pow2(attempt_number - 1) < wait_max
    THEN wait_multiplier * Pow2(attempt_number - 1) ELSE wait_max

\* wait_exponential: max(max(0, min), min(multiplier * 2 ** (attempt_number - 1), max))
WaitExponential(attempt_number) ==
  LET exp == wait_multiplier * Pow2(attempt_number - 1)
      capped == IF exp < wait_max THEN exp ELSE wait_max
      floor == IF wait_min > 0 THEN wait_min ELSE 0
  IN IF capped > floor THEN capped ELSE floor

\* generate_openai_changelog is called: the two early returns, else the first
\* attempt of call_openai_api is due
RetryGenerate ==
  /\ r_pc = "idle"
  /\ IF ~r_has_data
       THEN /\ r_result' = <<"No data available to generate changelog.">>
            /\ r_pc' = "done"
       ELSE IF ~r_has_key
         THEN /\ r_result' = <<"Error: OPENAI_API_KEY environment variable not set.">>
              /\ r_pc' = "done"
         ELSE /\ r_result' = r_result
              /\ r_pc' = "attempt"
  /\ UNCHANGED <<r_has_data, r_has_key, r_script, r_attempt, r_calls, r_waits,
                 r_raised>>
  /\ UNCHANGED notRetry

\* One attempt: the request is sent and answered as the script says.  A
\* completion is returned through generate_openai_changelog (header +
\* changelog); an exception is retried after a sleep unless the stop
\* condition holds, and then tenacity raises RetryError, which
\* generate_openai_changelog turns into its error string.
RetryAttempt ==
  /\ r_pc = "attempt"
  /\ r_calls < ScriptLen
  /\ r_calls' = r_calls + 1
  /\ LET outcome == r_script[r_calls + 1]
     IN IF ~RetryOn(outcome)
          THEN /\ r_pc' = "done"
               /\ r_raised' = IF outcome \in ApiFailures THEN outcome ELSE ""
               /\ r_result' =
                    IF outcome \in ApiFailures
                      THEN <<"Error generating AI changelog: ", outcome>>
                      ELSE <<"# repo Changelog (AI-Generated)", Completion(outcome)>>
               /\ UNCHANGED r_waits
          ELSE IF StopAfterAttempt(r_attempt)
            THEN /\ r_pc' = "done"
                 /\ r_raised' = "RetryError"
                 /\ r_result' = <<"Error generating AI changelog: ", "RetryError">>
                 /\ UNCHANGED r_waits
            ELSE /\ r_pc' = "sleep"
                 /\ r_waits' = Append(r_waits, WaitExponential(r_attempt))
                 /\ UNCHANGED <<r_raised, r_result>>
  /\ UNCHANGED <<r_has_data, r_has_key, r_script, r_attempt>>
  /\ UNCHANGED notRetry

\* The sleep before the next attempt is over
RetrySleep ==
  /\ r_pc = "sleep"
  /\ r_pc' = "attempt"
  /\ r_attempt' = r_attempt + 1
  /\ UNCHANGED <<r_has_data, r_has_key, r_script, r_calls, r_waits, r_raised,
                 r_result>>
  /\ UNCHANGED notRetry

RetryNext == RetryGenerate \/ RetryAttempt \/ RetrySleep

(***************************************************************************)
(* Daytrip planner: validate_city                                          *)
(***************************************************************************)
village == <<"v", "i", "l", "l", "a", "g", "e">>
city_block == <<"c", "i", "t", "y", "_", "b", "l", "o", "c", "k">>

\* addresstype values of a Nominatim result; EmptyStr also stands for a
\* result without the key (data[0].get("addresstype", ""))
AddressTypes == {city, town, village, city_block, EmptyStr}
DisplayNames == {Madrid, madrid, MadridDisplay, Qwx}
CityNames == {Madrid, madrid, Qwx, EmptyStr}

\* What requests.get(...).json() gives: the request or the decoding failed,
\* or a list of at most one result (limit=1)
GeocoderResponses ==
  {[failed |-> TRUE, data |-> << >>], [failed |-> FALSE, data |-> << >>]}
    \cup {[failed |-> FALSE,
           data |-> << [addresstype |-> t, display_name |-> n] >>] :
             t \in AddressTypes, n \in DisplayNames}

\* validate_city with the condition read as
\*   data and ("city" in at or "town" in at) and dn.lower() == city_name.lower()
ValidateCityMutPrecedence(city_name, response) ==
  IF response.failed
    THEN "False"
    ELSE IF response.data = << >>
      THEN "False"
      ELSE IF /\ \/ Contains(city, Lower(response.data[1].addresstype))
                 \/ Contains(town, Lower(response.data[1].addresstype))
              /\ Lower(response.data[1].display_name) = Lower(city_name)
        THEN "True"
        ELSE "False"

\* daytrip validate_city.  The condition is
\*   data and "city" in at.lower()  or  "town" in at.lower() and dn.lower() == city_name.lower()
\* (`and` binds tighter than `or`); with an empty list the right operand
\* evaluates data[0], whose IndexError the except clause turns into False.
ValidateCityDaytrip(city_name, response) ==
  IF response.failed
    THEN "False"
    ELSE IF response.data # << >>
            /\ Contains(city, Lower(response.data[1].addresstype))
      THEN "True"
      ELSE IF response.data = << >>
        THEN "False"
        ELSE IF /\ Contains(town, Lower(response.data[1].addresstype))
                /\ Lower(response.data[1].display_name) = Lower(city_name)
          THEN "True"
          ELSE "False"

\* validate_city(v_city_name) is called and returns
ValidateCall ==
  /\ v_result = "pending"
  /\ v_result' = ValidateCityDaytrip(v_city_name, v_response)
  /\ UNCHANGED <<v_city_name, v_response>>
  /\ UNCHANGED notValidate

ValidateNext == ValidateCall

(***************************************************************************)
(* Article to speech                                                       *)
(***************************************************************************)
\* A key the payload does not hold
Missing == "<missing>"
\* Python's None as a field of ArticleContent
NoneField == "<None>"

\* content.data of a finished extract job; failed: start_and_wait raised or
\* data is not a mapping
Payloads ==
  {[failed |-> TRUE, title |-> Missing, fullContent |-> Missing,
    author |-> Missing, abstract |-> Missing]}
    \cup {[failed |-> FALSE, title |-> t, fullContent |-> f, author |-> a,
           abstract |-> b] :
             t \in {Missing, "", "Title"}, f \in {Missing, "", "Text"},
             a \in {Missing, "Author"}, b \in {Missing, "Abstract"}}

\* st.session_state.article_content is None
NoArticle ==
  [none |-> TRUE, title |-> "", full_content |-> "", author |-> NoneField,
   abstract |-> NoneField]

\* ArticleContent.from_json: json_data.get(key, default) for the four fields
from_json(data) ==
  [none |-> FALSE,
   title |-> IF data.title = Missing THEN "" ELSE data.title,
   full_content |-> IF data.fullContent = Missing THEN "" ELSE data.fullContent,
   author |-> IF data.author = Missing THEN NoneField ELSE data.author,
   abstract |-> IF data.abstract = Missing THEN NoneField ELSE data.abstract]

\* extract_content: the record built from the job's data, None when anything
\* raised (the exception is printed to the console)
extract_content(payload) ==
  IF payload.failed THEN NoArticle ELSE from_json(payload)

Urls == {"", "https://a", "https://b"}

\* The tail of main without the test of content
ArticleShownAlways(content) == {"success", "convert_button"}

\* The tail of main: the success box and the "Convert to speech" button are
\* rendered when content is not None
ArticleShown(content) == IF content.none THEN {} ELSE {"success", "convert_button"}

\* What main reports through st.error
ArticleErrorMessages == {"error_generating_speech"}

\* The user edits the URL text input; the script runs without a button
ArticleEditUrl ==
  /\ \E u \in Urls \ {a_url} : a_url' = u
  /\ a_msg' = ArticleShown(a_article_content)
  /\ UNCHANGED <<a_article_content, a_payload>>
  /\ UNCHANGED notArticle

\* The user presses "Extract"
ArticleExtract ==
  /\ IF a_url # ""
       THEN \E payload \in Payloads :
              /\ a_payload' = payload
              /\ a_article_content' = extract_content(payload)
              /\ a_msg' = {"extracting"} \cup ArticleShown(extract_content(payload))
       ELSE /\ a_msg' = {"warning_enter_url"} \cup ArticleShown(a_article_content)
            /\ UNCHANGED <<a_article_content, a_payload>>
  /\ UNCHANGED a_url
  /\ UNCHANGED notArticle

\* The user presses "Convert to speech": ElevenLabs answers with audio or
\* raises, which st.error reports
ArticleConvert ==
  /\ "convert_button" \in a_msg
  /\ \E ok \in BOOLEAN :
       a_msg' = ArticleShown(a_article_content)
                  \cup (IF ok THEN {"converting", "audio"}
                              ELSE {"converting", "error_generating_speech"})
  /\ UNCHANGED <<a_url, a_article_content, a_payload>>
  /\ UNCHANGED notArticle

ArticleNext == ArticleEditUrl \/ ArticleExtract \/ ArticleConvert

(***************************************************************************)
(* Daytrip planner                                                         *)
(***************************************************************************)
\* daytrip display_travel_data up to the tabs (lines 440-481) with the
\* session's page_number `stored`; user_value is the user's input to the Page
\* control.  The number the control returns is stored and used at once.
DisplayDaytrip(travel_data, stored, user_value) ==
  IF travel_data = << >>
    THEN [ret |-> FALSE, raised |-> FALSE, page_number |-> stored, rerun |-> FALSE,
          tabs |-> << >>, page_input |-> 0]
    ELSE IF NumPages(Len(travel_data)) > 1
      THEN IF NumberInput(1, NumPages(Len(travel_data)), stored, user_value).raised
             THEN [ret |-> FALSE, raised |-> TRUE, page_number |-> stored,
                   rerun |-> FALSE, tabs |-> << >>, page_input |-> 0]
             ELSE [ret |-> TRUE, raised |-> FALSE,
                   page_number |->
                     NumberInput(1, NumPages(Len(travel_data)), stored,
                                 user_value).number,
                   rerun |-> FALSE,
                   tabs |->
                     PageSlice(travel_data,
                               NumberInput(1, NumPages(Len(travel_data)), stored,
                                           user_value).number),
                   page_input |-> NumPages(Len(travel_data))]
      ELSE [ret |-> TRUE, raised |-> FALSE, page_number |-> 1, rerun |-> FALSE,
            tabs |-> PageSlice(travel_data, 1), page_input |-> 0]

\* Texts the user types into the city input
DaytripInputs == {EmptyStr, Madrid, madrid, Metz, Qwx}

\* Keys of the capture cache: from_location.lower() of the cities that pass
\* validate_city
DaytripKeys == {madrid, metz}

\* An entry of the cache of cached_extract_travel_data: state is "miss",
\* "none" (None was returned and cached) or "list"
NotExtracted == [state |-> "miss", data |-> << >>]

\* What extract_travel_data_from_image answers for the screenshot of city k:
\* it raises ValueError without OPENAI_API_KEY, else None or a list
DaytripAnalyses(k) ==
  IF ~d_has_key
    THEN {[state |-> "raises", data |-> << >>]}
    ELSE {[state |-> "none", data |-> << >>]}
           \cup {[state |-> "list",
                  data |-> MkList(IF k = madrid THEN 1 ELSE 2, n)] :
                    n \in ListLengths}

\* capture_explore_page(browser_ws_url, from_location): every failure is
\* caught inside and gives None.  Line 137 reads the attribute `chromium` of
\* the function sync_playwright itself, which the playwright package does not
\* define, so the published code always ends in None; the model also admits
\* a screenshot path, the outcome once that lookup resolves, so that the code
\* behind the capture is covered.
CaptureOutcomes == {"none", "path"}

\* cached_browser_ws_url(): creating the session raises, or gives a session
\* with or without ws_endpoint (the pair is cached either way)
WsOutcomes == {"ok", "no_endpoint", "raises"}

\* search_atlas_obscura: None, day plans, or an uncaught browser exception
AtlasOutcomes == {"none", "plans", "raises"}

\* The reset block of main without the assignment to page_number
DaytripCityResetKeepsPage(s, from_location_in) ==
  IF from_location_in # s.from_location
    THEN [s EXCEPT !.from_location = from_location_in,
                   !.show_modal = FALSE,
                   !.selected_destination = 0]
    ELSE s

\* The reset that leaves show_atlas_obscura_modal alone
DaytripCityResetKeepsModal(s, from_location_in) ==
  IF from_location_in # s.from_location
    THEN [s EXCEPT !.from_location = from_location_in,
                   !.page_number = 1,
                   !.selected_destination = 0]
    ELSE s

\* main, lines 637-641: the validated city differs from the stored one
DaytripCityReset(s, from_location_in) ==
  IF from_location_in # s.from_location
    THEN [s EXCEPT !.from_location = from_location_in,
                   !.page_number = 1,
                   !.show_modal = FALSE,
                   !.selected_destination = 0]
    ELSE s

\* @st.cache_data cached_capture_explore_page: on a miss the body sets
\* page_number to 1 and the result (None too) is cached
cached_capture_explore_page(s, k, outcome) ==
  IF s.capture[k] # "miss"
    THEN s
    ELSE [s EXCEPT !.page_number = 1, !.recomputed = TRUE, !.capture[k] = outcome]

\* @st.cache_data cached_extract_travel_data: on a miss the body sets
\* page_number to 1; a returned value is cached, an exception is not
cached_extract_travel_data(s, k, analysis) ==
  IF s.extract[k].state # "miss"
    THEN s
    ELSE IF analysis.state = "raises"
      THEN [s EXCEPT !.page_number = 1, !.recomputed = TRUE,
                     !.msg = "exception_extract"]
      ELSE [s EXCEPT !.page_number = 1, !.recomputed = TRUE,
                     !.extract[k] = analysis]

\* display_travel_data after the tabs (d is what DisplayDaytrip gave): the
\* "Discover Things to do" button of tab `discover` (0: none pressed) stores
\* the destination and asks for a rerun; else the Atlas Obscura results are
\* searched and shown when the modal flag and a destination are set.
DaytripShown(s, travel_data, d, discover, atlas) ==
  IF d.raised
    THEN [s EXCEPT !.msg = "exception_number_input", !.travel_data = travel_data]
    ELSE IF ~d.ret
      THEN [s EXCEPT !.msg = "no_destinations", !.travel_data = travel_data]
      ELSE IF discover \in 1..Len(d.tabs)
        THEN [s EXCEPT !.msg = "rerun", !.rerun = TRUE,
                       !.page_number = d.page_number,
                       !.page_input = d.page_input,
                       !.tabs = d.tabs,
                       !.travel_data = travel_data,
                       !.selected_destination = d.tabs[discover],
                       !.show_modal = TRUE]
        ELSE [s EXCEPT !.msg = IF s.show_modal /\ s.selected_destination # 0
                                 THEN IF atlas = "raises" THEN "exception_atlas"
                                      ELSE IF atlas = "none" THEN "no_things_to_do"
                                      ELSE "shown_with_guide"
                                 ELSE "shown",
                       !.page_number = d.page_number,
                       !.page_input = d.page_input,
                       !.tabs = d.tabs,
                       !.travel_data = travel_data]

\* main from the call of cached_extract_travel_data on (s is the session
\* after it)
DaytripExtracted(s, k, user_value, discover, atlas) ==
  IF s.msg = "exception_extract"
    THEN s
    ELSE IF s.extract[k].state = "none"
      THEN [s EXCEPT !.msg = "no_travel_data"]
      ELSE DaytripShown(s, s.extract[k].data,
                        DisplayDaytrip(s.extract[k].data, s.page_number, user_value),
                        discover, atlas)

\* main from the call of cached_capture_explore_page on (s is the session
\* after it)
DaytripCaptured(s, k, user_value, discover, analysis, atlas) ==
  IF s.capture[k] = "none"
    THEN [s EXCEPT !.msg = "no_screenshot"]
    ELSE DaytripExtracted(cached_extract_travel_data(s, k, analysis), k,
                          user_value, discover, atlas)

\* main from cached_browser_ws_url() on
DaytripSession(s, k, user_value, discover, ws, outcome, analysis, atlas) ==
  IF s.ws = "miss" /\ ws = "raises"
    THEN [s EXCEPT !.msg = "exception_session"]
    ELSE IF s.ws = "no_endpoint" \/ (s.ws = "miss" /\ ws = "no_endpoint")
      THEN [s EXCEPT !.msg = "no_session", !.ws = "no_endpoint"]
      ELSE DaytripCaptured(
             cached_capture_explore_page([s EXCEPT !.ws = "ok"], k, outcome),
             k, user_value, discover, analysis, atlas)

\* The session as a run finds it; nothing shown yet
DaytripBase ==
  [from_location |-> d_from_location, page_number |-> d_page_number,
   selected_destination |-> d_selected_destination,
   show_modal |-> d_show_modal, ws |-> d_ws, capture |-> d_capture,
   extract |-> d_extract, recomputed |-> FALSE, msg |-> "idle",
   travel_data |-> << >>, tabs |-> << >>, page_input |-> 0, rerun |-> FALSE]

\* The session and the page a run leaves
DaytripStore(s) ==
  /\ d_from_location' = s.from_location
  /\ d_page_number' = s.page_number
  /\ d_selected_destination' = s.selected_destination
  /\ d_show_modal' = s.show_modal
  /\ d_ws' = s.ws
  /\ d_capture' = s.capture
  /\ d_extract' = s.extract
  /\ d_recomputed' = s.recomputed
  /\ d_msg' = s.msg
  /\ d_travel_data' = s.travel_data
  /\ d_tabs' = s.tabs
  /\ d_page_input' = s.page_input
  /\ d_rerun' = s.rerun

\* One run of the daytrip planner's main(): from_location_in is the text
\* input, button the "Find Weekend Getaways" button, user_value the user's
\* input to the Page control (0: none), discover the pressed "Discover" button
\* (0: none); failed, ws, outcome, analysis and atlas are what the geocoder,
\* the session service, the browser automation, the vision extraction and
\* the Atlas Obscura search answer if they are called.
DaytripMain(from_location_in, button, user_value, discover, failed, ws, outcome, analysis, atlas) ==
  IF ~(button \/ from_location_in # EmptyStr)
    THEN DaytripBase
    ELSE IF ValidateCityDaytrip(from_location_in,
                                [failed |-> failed,
                                 data |-> IF failed THEN << >>
                                          ELSE Nominatim(from_location_in)])
              = "False"
      THEN [DaytripBase EXCEPT !.msg = "invalid_city"]
      ELSE DaytripSession(DaytripCityReset(DaytripBase, from_location_in),
                          Lower(from_location_in), user_value, discover, ws,
                          outcome, analysis, atlas)

\* The answers a run can observe: the ones of the calls it makes.  Each set
\* is found by running main with an answer only that call can give.
GeocoderChoices(from_location_in, button) ==
  IF button \/ from_location_in # EmptyStr THEN BOOLEAN ELSE {FALSE}

WsChoices(from_location_in, button, failed) ==
  IF DaytripMain(from_location_in, button, 0, 0, failed, "raises", "path",
                 NotExtracted, "plans").msg = "exception_session"
    THEN WsOutcomes ELSE {"ok"}

CaptureChoices(from_location_in, button, failed, ws) ==
  IF DaytripMain(from_location_in, button, 0, 0, failed, ws, "none",
                 NotExtracted, "plans").recomputed
    THEN CaptureOutcomes ELSE {"path"}

ExtractChoices(from_location_in, button, failed, ws, outcome) ==
  IF DaytripMain(from_location_in, button, 0, 0, failed, ws, outcome,
                 [state |-> "raises", data |-> << >>], "plans").msg
       = "exception_extract"
    THEN DaytripAnalyses(Lower(from_location_in))
    ELSE {NotExtracted}

AtlasChoices(from_location_in, button, user_value, discover, failed, ws, outcome, analysis) ==
  IF DaytripMain(from_location_in, button, user_value, discover, failed, ws,
                 outcome, analysis, "raises").msg = "exception_atlas"
    THEN AtlasOutcomes ELSE {"plans"}

DaytripRun(event, from_location_in, button, user_value, discover) ==
  \E failed \in GeocoderChoices(from_location_in, button) :
    \E ws \in WsChoices(from_location_in, button, failed) :
      \E outcome \in CaptureChoices(from_location_in, button, failed, ws) :
        \E analysis \in ExtractChoices(from_location_in, button, failed, ws, outcome) :
          \E atlas \in AtlasChoices(from_location_in, button, user_value, discover, failed, ws, outcome, analysis) :
            /\ d_input' = from_location_in
            /\ d_event' = event
            /\ d_before' = d_page_number
            /\ DaytripStore(DaytripMain(from_location_in, button, user_value,
                                        discover, failed, ws, outcome, analysis,
                                        atlas))
            /\ UNCHANGED d_has_key
            /\ UNCHANGED notDaytrip

\* The user types another city and presses Enter
DaytripEditCity ==
  /\ ~d_rerun
  /\ \E c \in DaytripInputs \ {d_input} : DaytripRun("edit", c, FALSE, 0, 0)

\* The user presses "Find Weekend Getaways"
DaytripClickFind ==
  /\ ~d_rerun
  /\ DaytripRun("find", d_input, TRUE, 0, 0)

\* The user sets the "Page" number input to another page it offers
DaytripChangePage ==
  /\ ~d_rerun
  /\ d_page_input > 0
  /\ \E p \in (1..d_page_input) \ {d_page_number} :
       DaytripRun("page", d_input, FALSE, p, 0)

\* The user presses the "Discover Things to do" button of a tab
DaytripDiscover ==
  /\ ~d_rerun
  /\ \E i \in 1..Len(d_tabs) :
       /\ i <= MaxDiscover
       /\ DaytripRun("discover", d_input, FALSE, 0, i)

\* The run that st.rerun() asked for
DaytripRerun ==
  /\ d_rerun
  /\ DaytripRun("rerun", d_input, FALSE, 0, 0)

\* ttl=3600: the cached capture of a city, and with it the extraction of its
\* screenshot, expires
DaytripCacheExpire ==
  /\ ~d_rerun
  /\ \E k \in DaytripKeys :
       /\ d_capture[k] # "miss"
       /\ d_capture' = [d_capture EXCEPT ![k] = "miss"]
       /\ d_extract' = [d_extract EXCEPT ![k] = NotExtracted]
  /\ UNCHANGED <<d_input, d_has_key, d_from_location, d_page_number,
                 d_selected_destination, d_show_modal, d_ws, d_event, d_before,
                 d_recomputed, d_msg, d_travel_data, d_tabs, d_page_input,
                 d_rerun>>
  /\ UNCHANGED notDaytrip

\* ttl=14 minutes: the cached session expires; the next one has another
\* ws_endpoint, under which nothing is cached
DaytripSessionExpire ==
  /\ ~d_rerun
  /\ d_ws # "miss"
  /\ d_ws' = "miss"
  /\ d_capture' = [k \in DaytripKeys |-> "miss"]
  /\ d_extract' = [k \in DaytripKeys |-> NotExtracted]
  /\ UNCHANGED <<d_input, d_has_key, d_from_location, d_page_number,
                 d_selected_destination, d_show_modal, d_event, d_before,
                 d_recomputed, d_msg, d_travel_data, d_tabs, d_page_input,
                 d_rerun>>
  /\ UNCHANGED notDaytrip

DaytripNext ==
  \/ DaytripEditCity
  \/ DaytripClickFind
  \/ DaytripChangePage
  \/ DaytripDiscover
  \/ DaytripRerun
  \/ DaytripCacheExpire
  \/ DaytripSessionExpire

(***************************************************************************)
(* display_travel_data called on one list, page after page                 *)
(***************************************************************************)
PaginateApps == {"budget", "daytrip"}

\* Every list of 0..MaxDestinations destinations
PaginateLists == {MkList(id, n) : id \in 1..MaxListIds, n \in 0..MaxDestinations}

\* One call of the app's display_travel_data
PaginateDisplay(user_value) ==
  IF pg_app = "budget"
    THEN DisplayBudget(pg_list, pg_page_number, user_value)
    ELSE DisplayDaytrip(pg_list, pg_page_number, user_value)

\* The script runs display_travel_data; user_value is the user's input to the
\* Page control.  The tabs a call renders are kept under its page number.
PaginateCall(user_value) ==
  /\ pg_out' = PaginateDisplay(user_value)
  /\ pg_page_number' = PaginateDisplay(user_value).page_number
  /\ pg_pages' =
       IF PaginateDisplay(user_value).ret
         THEN [pg_pages EXCEPT ![PaginateDisplay(user_value).page_number] =
                                  PaginateDisplay(user_value).tabs]
         ELSE pg_pages
  /\ UNCHANGED <<pg_app, pg_list>>
  /\ UNCHANGED notPaginate

\* The list is displayed for the first time
PaginateShow ==
  /\ pg_out = << >>
  /\ PaginateCall(0)

\* The user sets the Page control to another page it offers
PaginateChangePage ==
  /\ pg_out # << >>
  /\ ~pg_out.rerun
  /\ \E p \in (1..pg_out.page_input) \ {pg_page_number} : PaginateCall(p)

\* The run st.rerun() asked for (budget app)
PaginateRerun ==
  /\ pg_out # << >>
  /\ pg_out.rerun
  /\ PaginateCall(0)

PaginateNext == PaginateShow \/ PaginateChangePage \/ PaginateRerun

(***************************************************************************)
(* Tweet fetcher CLI                                                       *)
(***************************************************************************)
\* PROFILE_ID when the configuration names one
ConfiguredProfile == 100

\* No .session file; a .session file is [exists |-> TRUE, session_id |-> id],
\* session_id 0 when the object has no (or a null) session_id
NoSessionFile == [exists |-> FALSE, session_id |-> 0]

\* Settings(): PROFILE_ID from the env files .env and .profile, the later
\* file winning
SettingsProfile ==
  IF t_profile_file # 0 THEN t_profile_file ELSE t_env_profile

\* How client.extract.start_and_wait ends: the job completed, the job failed
\* (the job response is returned with data None), or the call raised
ExtractOutcomes == {"completed", "failed", "raises"}

\* create_session_params: the configured profile, else a profile created now
\* (next_profile is the id the service gives it) and written to .profile.
\* settings.PROFILE_ID itself is not assigned.
create_session_params(settings_profile, next_profile, outcome) ==
  IF settings_profile # 0
    THEN [raised |-> FALSE, profile_id |-> settings_profile, created |-> 0]
    ELSE IF outcome = "raises"
      THEN [raised |-> TRUE, profile_id |-> 0, created |-> 0]
      ELSE [raised |-> FALSE, profile_id |-> next_profile, created |-> 1]

\* stop_session that goes on to the remote call with whatever id it read
StopSessionNoIdCheck(session_id, file, outcome) ==
  IF session_id = 0 /\ ~file.exists
    THEN [called |-> << >>, raised |-> FALSE, file |-> file,
          removed |-> FALSE, report |-> "no_active_session"]
    ELSE IF outcome = "raises"
      THEN [called |-> << IF session_id # 0 THEN session_id ELSE file.session_id >>,
            raised |-> TRUE, file |-> file, removed |-> FALSE, report |-> ""]
      ELSE [called |-> << IF session_id # 0 THEN session_id ELSE file.session_id >>,
            raised |-> FALSE, file |-> NoSessionFile, removed |-> file.exists,
            report |-> "stopped"]

\* stop_session that removes .session before the remote call
StopSessionRemovesFirst(session_id, file, outcome) ==
  IF session_id = 0 /\ ~file.exists
    THEN [called |-> << >>, raised |-> FALSE, file |-> file,
          removed |-> FALSE, report |-> "no_active_session"]
    ELSE IF session_id = 0 /\ file.session_id = 0
      THEN [called |-> << >>, raised |-> FALSE, file |-> file,
            removed |-> FALSE, report |-> "no_session_id"]
      ELSE [called |-> << IF session_id # 0 THEN session_id ELSE file.session_id >>,
            raised |-> outcome = "raises", file |-> NoSessionFile,
            removed |-> file.exists,
            report |-> IF outcome = "raises" THEN "" ELSE "stopped"]

\* stop_session(session_id) with .session as `file` (session_id 0: no
\* --session-id); outcome is how client.sessions.stop ends.  called: the ids
\* handed to client.sessions.stop.
stop_session(session_id, file, outcome) ==
  IF session_id = 0 /\ ~file.exists
    THEN [called |-> << >>, raised |-> FALSE, file |-> file,
          removed |-> FALSE, report |-> "no_active_session"]
    ELSE IF session_id = 0 /\ file.session_id = 0
      THEN [called |-> << >>, raised |-> FALSE, file |-> file,
            removed |-> FALSE, report |-> "no_session_id"]
      ELSE IF outcome = "raises"
        THEN [called |-> << IF session_id # 0 THEN session_id ELSE file.session_id >>,
              raised |-> TRUE, file |-> file, removed |-> FALSE, report |-> ""]
        ELSE [called |-> << IF session_id # 0 THEN session_id ELSE file.session_id >>,
              raised |-> FALSE, file |-> NoSessionFile, removed |-> file.exists,
              report |-> "stopped"]

\* A process starts: Settings() is loaded, nothing done yet
TweetProcess(cmd) ==
  /\ t_pc = "idle"
  /\ t_cmd' = cmd
  /\ t_settings_profile' = SettingsProfile
  /\ t_before' = t_session_file

\* `tweets <handle>`, `followers <handle>` or `all <handle>` is started: the
\* first extraction function is entered
TweetStart ==
  /\ \E cmd \in {"tweets", "followers", "all"} :
       /\ TweetProcess(cmd)
       /\ t_kind' = IF cmd = "followers" THEN "followers" ELSE "tweets"
  /\ t_pc' = "params"
  /\ t_written' = {}
  /\ t_used' = << >>
  /\ t_created' = 0
  /\ t_failed' = {}
  /\ t_stops' = << >>
  /\ t_exit' = "running"
  /\ t_report' = ""
  /\ UNCHANGED <<t_env_profile, t_profile_file, t_profiles, t_sessions, t_live,
                 t_session_file, t_tweets_file, t_followers_file,
                 t_last_written, t_outstanding>>
  /\ UNCHANGED notTweet

\* The extraction function calls create_session_params() and issues
\* client.extract.start_and_wait with the profile it got
TweetParams ==
  /\ t_pc = "params"
  /\ \E outcome \in {"ok", "raises"} :
       IF create_session_params(t_settings_profile, t_profiles + 1, outcome).raised
         THEN /\ t_pc' = "idle"
              /\ t_exit' = "raised"
              /\ UNCHANGED <<t_profile_file, t_profiles, t_written, t_used,
                             t_created, t_outstanding>>
         ELSE /\ t_pc' = "extract"
              /\ t_exit' = t_exit
              /\ t_profiles' = t_profiles
                   + create_session_params(t_settings_profile, t_profiles + 1,
                                           outcome).created
              /\ t_created' = t_created
                   + create_session_params(t_settings_profile, t_profiles + 1,
                                           outcome).created
              /\ t_profile_file' =
                   IF t_settings_profile = 0 THEN t_profiles + 1 ELSE t_profile_file
              /\ t_written' =
                   IF t_settings_profile = 0 THEN t_written \cup {".profile"}
                   ELSE t_written
              /\ t_used' =
                   Append(t_used,
                          create_session_params(t_settings_profile,
                                                t_profiles + 1, outcome).profile_id)
              /\ t_outstanding' = t_outstanding + 1
  /\ UNCHANGED <<t_cmd, t_kind, t_env_profile, t_settings_profile, t_sessions,
                 t_live, t_session_file, t_tweets_file, t_followers_file,
                 t_last_written, t_before, t_failed, t_stops, t_report>>
  /\ UNCHANGED notTweet

\* start_and_wait ends.  A returned job response, completed or failed, is
\* reported as success and its data dumped to the result file; an exception
\* ends the process.  After the tweets of `all` comes asyncio.sleep(2).
TweetExtractReturn ==
  /\ t_pc = "extract"
  /\ t_outstanding' = t_outstanding - 1
  /\ \E outcome \in ExtractOutcomes :
       /\ t_failed' = IF outcome = "completed" THEN t_failed
                      ELSE t_failed \cup {t_kind}
       /\ IF outcome = "raises"
            THEN /\ t_pc' = "idle"
                 /\ t_exit' = "raised"
                 /\ UNCHANGED <<t_tweets_file, t_followers_file, t_written>>
            ELSE /\ t_tweets_file' =
                      IF t_kind = "tweets"
                        THEN (IF outcome = "completed" THEN "data" ELSE "null")
                        ELSE t_tweets_file
                 /\ t_followers_file' =
                      IF t_kind = "followers"
                        THEN (IF outcome = "completed" THEN "data" ELSE "null")
                        ELSE t_followers_file
                 /\ t_written' = t_written \cup
                      {IF t_kind = "tweets" THEN "tweets.json" ELSE "followers.json"}
                 /\ t_pc' = IF t_cmd = "all" /\ t_kind = "tweets"
                              THEN "sleep" ELSE "idle"
                 /\ t_exit' = IF t_cmd = "all" /\ t_kind = "tweets"
                                THEN t_exit ELSE "ok"
  /\ UNCHANGED <<t_cmd, t_kind, t_env_profile, t_profile_file,
                 t_settings_profile, t_profiles, t_sessions, t_live,
                 t_session_file, t_last_written, t_before, t_used, t_created,
                 t_stops, t_report>>
  /\ UNCHANGED notTweet

\* run_all: the sleep is over, extract_followers is entered
TweetSleep ==
  /\ t_pc = "sleep"
  /\ t_pc' = "params"
  /\ t_kind' = "followers"
  /\ UNCHANGED <<t_cmd, t_env_profile, t_profile_file, t_settings_profile,
                 t_profiles, t_sessions, t_live, t_session_file, t_tweets_file,
                 t_followers_file, t_last_written, t_before, t_written, t_used,
                 t_created, t_outstanding, t_failed, t_stops, t_exit, t_report>>
  /\ UNCHANGED notTweet

\* `session`: create_session() as a whole.  created/session tell how
\* client.profiles.create and client.sessions.create end.
TweetSession ==
  /\ TweetProcess("session")
  /\ t_sessions < MaxSessions
  /\ \E created \in {"ok", "raises"}, session \in {"ok", "raises"} :
       IF create_session_params(SettingsProfile, t_profiles + 1, created).raised
         THEN /\ t_exit' = "raised"
              /\ t_written' = {}
              /\ t_used' = << >>
              /\ t_created' = 0
              /\ UNCHANGED <<t_profile_file, t_profiles, t_sessions, t_live,
                             t_session_file, t_last_written>>
         ELSE /\ t_profiles' = t_profiles
                   + create_session_params(SettingsProfile, t_profiles + 1,
                                           created).created
              /\ t_created' =
                   create_session_params(SettingsProfile, t_profiles + 1,
                                         created).created
              /\ t_profile_file' =
                   IF SettingsProfile = 0 THEN t_profiles + 1 ELSE t_profile_file
              /\ t_used' =
                   << create_session_params(SettingsProfile, t_profiles + 1,
                                            created).profile_id >>
              /\ IF session = "raises"
                   THEN /\ t_exit' = "raised"
                        /\ t_written' =
                             IF SettingsProfile = 0 THEN {".profile"} ELSE {}
                        /\ UNCHANGED <<t_sessions, t_live, t_session_file,
                                       t_last_written>>
                   ELSE /\ t_exit' = "ok"
                        /\ t_written' =
                             IF SettingsProfile = 0 THEN {".profile", ".session"}
                             ELSE {".session"}
                        /\ t_sessions' = t_sessions + 1
                        /\ t_live' = t_live \cup {t_sessions + 1}
                        /\ t_session_file' =
                             [exists |-> TRUE, session_id |-> t_sessions + 1]
                        /\ t_last_written' = t_sessions + 1
  /\ t_failed' = {}
  /\ t_stops' = << >>
  /\ t_report' = ""
  /\ UNCHANGED <<t_pc, t_kind, t_env_profile, t_tweets_file, t_followers_file,
                 t_outstanding>>
  /\ UNCHANGED notTweet

\* `stop` without --session-id (session_id 0) or with one
TweetStop ==
  /\ \E session_id \in 0..MaxSessions :
       /\ TweetProcess(IF session_id = 0 THEN "stop" ELSE "stop_id")
       /\ \E outcome \in {"ok", "raises"} :
            /\ t_stops' = stop_session(session_id, t_session_file, outcome).called
            /\ t_session_file' = stop_session(session_id, t_session_file, outcome).file
            /\ t_written' =
                 IF stop_session(session_id, t_session_file, outcome).removed
                   THEN {".session"} ELSE {}
            /\ t_exit' =
                 IF stop_session(session_id, t_session_file, outcome).raised
                   THEN "raised" ELSE "ok"
            /\ t_report' = stop_session(session_id, t_session_file, outcome).report
            /\ t_live' =
                 IF stop_session(session_id, t_session_file, outcome).report = "stopped"
                   THEN t_live \ {stop_session(session_id, t_session_file,
                                               outcome).called[1]}
                   ELSE t_live
  /\ t_used' = << >>
  /\ t_created' = 0
  /\ t_failed' = {}
  /\ UNCHANGED <<t_pc, t_kind, t_env_profile, t_profile_file, t_profiles,
                 t_sessions, t_tweets_file, t_followers_file, t_last_written,
                 t_outstanding>>
  /\ UNCHANGED notTweet

TweetNext ==
  \/ TweetStart
  \/ TweetParams
  \/ TweetExtractReturn
  \/ TweetSleep
  \/ TweetSession
  \/ TweetStop

(***************************************************************************)
(* Budget travel agent: take_screenshot waiting for the spinner            *)
(***************************************************************************)
\* for i in range(10)
spinner_polls == 10

\* Answers of is_visible() the model fixes in advance: one more than the loop
\* can ask for
SpinnerScripts == [1..(spinner_polls + 1) -> BOOLEAN]

\* How take_screenshot goes on once the spinner is gone
AfterSpinnerOutcomes == {"shot", "no_viewport", "no_screenshot", "raises"}

\* The test after the loop left out
SpinnerNeverTimesOut(isVisible) == FALSE

\* `if isVisible:` after the loop
SpinnerTimedOut(isVisible) == isVisible

\* One iteration of the loop: the spinner is polled; invisible: break;
\* visible: time.sleep(0.5) and the next i, if any.  An exception of the
\* poll is caught by `except Exception` and None is returned.
SpinnerPoll ==
  /\ s_pc = "loop"
  /\ s_polls' = s_polls + 1
  /\ \E raised \in BOOLEAN :
       IF raised
         THEN /\ s_pc' = "done"
              /\ s_ret' = "none"
              /\ s_error' = "Error during browser automation"
              /\ UNCHANGED <<s_i, s_isVisible>>
         ELSE /\ s_isVisible' = s_script[s_polls + 1]
              /\ s_i' = IF s_script[s_polls + 1] THEN s_i + 1 ELSE s_i
              /\ s_pc' = IF ~s_script[s_polls + 1] \/ s_i + 1 >= spinner_polls
                           THEN "after" ELSE "loop"
              /\ UNCHANGED <<s_ret, s_error>>
  /\ UNCHANGED s_script
  /\ UNCHANGED notSpinner

\* After the loop: the time-out test, then viewport, screenshot and crop
SpinnerFinish ==
  /\ s_pc = "after"
  /\ s_pc' = "done"
  /\ IF SpinnerTimedOut(s_isVisible)
       THEN /\ s_ret' = "none"
            /\ s_error' = "Could not capture the screenshot"
       ELSE \E outcome \in AfterSpinnerOutcomes :
              /\ s_ret' = IF outcome = "shot" THEN "shot" ELSE "none"
              /\ s_error' =
                   IF outcome = "shot" THEN ""
                   ELSE IF outcome = "raises" THEN "Error during browser automation"
                   ELSE "Could not get the screenshot for the travel options"
  /\ UNCHANGED <<s_script, s_i, s_isVisible, s_polls>>
  /\ UNCHANGED notSpinner

SpinnerNext == SpinnerPoll \/ SpinnerFinish

(***************************************************************************)
(* Changelog builder: generate_categorized_changelog                       *)
(***************************************************************************)
feature_keywords ==
  {<<"f", "e", "a", "t">>,
   <<"f", "e", "a", "t", "u", "r", "e">>,
   <<"a", "d", "d">>,
   <<"n", "e", "w">>}
bugfix_keywords ==
  {<<"f", "i", "x">>,
   <<"b", "u", "g">>,
   <<"i", "s", "s", "u", "e">>,
   <<"e", "r", "r", "o", "r">>,
   <<"r", "e", "s", "o", "l", "v">>}
docs_keywords ==
  {<<"d", "o", "c">>,
   <<"r", "e", "a", "d", "m", "e">>,
   <<"c", "o", "m", "m", "e", "n", "t">>}
refactor_keywords ==
  {<<"r", "e", "f", "a", "c", "t", "o", "r">>,
   <<"c", "l", "e", "a", "n">>,
   <<"r", "e", "s", "t", "r", "u", "c", "t", "u", "r", "e">>}
test_keywords ==
  {<<"t", "e", "s", "t">>,
   <<"s", "p", "e", "c">>,
   <<"a", "s", "s", "e", "r", "t">>}

\* Commit messages of the model; the empty one also stands for a commit
\* without message (commit.get("message", ""))
CommitMessages ==
  {<<"A", "d", "d", " ", "f", "i", "x">>,
   <<"F", "i", "x", " ", "d", "o", "c", "s">>,
   <<"R", "E", "A", "D", "M", "E">>,
   <<"C", "l", "e", "a", "n", " ", "t", "e", "s", "t">>,
   <<"S", "p", "e", "c">>,
   <<"B", "u", "m", "p">>,
   << >>,
   <<"R", "e", "n", "e", "w">>,
   <<"p", "r", "e", "f", "i", "x">>}

\* Lists of at most MaxCommits commits; sha is the position in the input
CommitLists ==
  UNION {[1..n -> CommitMessages] : n \in 0..MaxCommits}

\* any(keyword in message for keyword in keywords)
AnyKeyword(message, keywords) == \E keyword \in keywords : Contains(keyword, message)

\* The if/elif chain with the bug-fix test first
CategoryBugfixFirst(message) ==
  IF AnyKeyword(Lower(message), bugfix_keywords) THEN "Bug Fixes"
  ELSE IF AnyKeyword(Lower(message), feature_keywords) THEN "Features"
  ELSE IF AnyKeyword(Lower(message), docs_keywords) THEN "Documentation"
  ELSE IF AnyKeyword(Lower(message), refactor_keywords) THEN "Refactoring"
  ELSE IF AnyKeyword(Lower(message), test_keywords) THEN "Tests"
  ELSE "Other Changes"

\* The if/elif chain on message = commit.get("message", "").lower()
Category(message) ==
  IF AnyKeyword(Lower(message), feature_keywords) THEN "Features"
  ELSE IF AnyKeyword(Lower(message), bugfix_keywords) THEN "Bug Fixes"
  ELSE IF AnyKeyword(Lower(message), docs_keywords) THEN "Documentation"
  ELSE IF AnyKeyword(Lower(message), refactor_keywords) THEN "Refactoring"
  ELSE IF AnyKeyword(Lower(message), test_keywords) THEN "Tests"
  ELSE "Other Changes"

\* The sections in the order the function emits them
Categories ==
  <<"Features", "Bug Fixes", "Documentation", "Refactoring", "Tests",
    "Other Changes">>

\* The sections for the categories k..6: a heading and the commits of the
\* list, for the non-empty lists only
RECURSIVE Sections(_, _)
Sections(lists, k) ==
  IF k > Len(Categories) THEN << >>
  ELSE (IF lists[Categories[k]] # << >>
          THEN << [heading |-> Categories[k], commits |-> lists[Categories[k]]] >>
          ELSE << >>)
       \o Sections(lists, k + 1)

\* One iteration of `for commit in commits`
CategorizeCommit ==
  /\ c_pc = "loop"
  /\ c_i < Len(c_commits)
  /\ c_i' = c_i + 1
  /\ c_lists' = [c_lists EXCEPT ![Category(c_commits[c_i + 1])] =
                                  Append(@, c_i + 1)]
  /\ UNCHANGED <<c_pc, c_commits, c_out>>
  /\ UNCHANGED notCategorize

\* The loop is over: the sections are appended and the text is returned
CategorizeEmit ==
  /\ c_pc = "loop"
  /\ c_i = Len(c_commits)
  /\ c_pc' = "done"
  /\ c_out' = Sections(c_lists, 1)
  /\ UNCHANGED <<c_commits, c_i, c_lists>>
  /\ UNCHANGED notCategorize

CategorizeNext == CategorizeCommit \/ CategorizeEmit

(***************************************************************************)
(* chat-with-youtube                                                       *)
(* A URL is a sequence of tokens (scheme, host and path prefix, video id,  *)
(* query suffix); a text is a sequence of tokens too.                      *)
(***************************************************************************)
YtVideos == {"A", "B"}

YtUrls ==
  {<< >>,
   <<"https://www.", "youtube.com/watch?v=", "A">>,
   <<"youtu.be/", "A", "?si=x">>,
   <<"https://", "youtube.com/watch?v=", "B", "&t=10">>,
   <<"https://", "example.com/", "A">>}

\* re.search(pattern, url) for a pattern that ends with the host and path
\* prefix followed by the group of the video id; "None" when no match
RECURSIVE SearchPattern(_, _, _)
SearchPattern(prefix, url, i) ==
  IF i + 1 > Len(url) THEN "None"
  ELSE IF url[i] = prefix /\ url[i + 1] \in YtVideos THEN url[i + 1]
  ELSE SearchPattern(prefix, url, i + 1)

extract_video_id(url) ==
  IF SearchPattern("youtube.com/watch?v=", url, 1) # "None"
    THEN SearchPattern("youtube.com/watch?v=", url, 1)
    ELSE SearchPattern("youtu.be/", url, 1)

\* None and the empty list, the falsy values of a transcript
NoTranscript == << >>

\* The segments the transcript panel of a video holds
Transcript(v) ==
  IF v = "A"
    THEN <<[timestamp |-> "0:00", text |-> "a1"],
           [timestamp |-> "0:05", text |-> "a2"]>>
    ELSE <<[timestamp |-> "0:00", text |-> "b1"]>>

\* document.title of the page of a video without " - YouTube"
TitleOf(v) == IF v = "A" THEN "Title A" ELSE "Title B"

\* str.strip(): leading and trailing white space removed
RECURSIVE Strip(_)
Strip(s) ==
  IF s = << >> THEN s
  ELSE IF s[1] \in {" ", "\n"} THEN Strip(Tail(s))
  ELSE IF s[Len(s)] \in {" ", "\n"} THEN Strip(SubSeq(s, 1, Len(s) - 1))
  ELSE s

RECURSIVE FormatSegments(_, _)
FormatSegments(segments, include_timestamps) ==
  IF segments = << >> THEN << >>
  ELSE (IF include_timestamps
          THEN <<"[", segments[1].timestamp, "] ", segments[1].text, "\n">>
          ELSE <<segments[1].text, " ">>)
       \o FormatSegments(Tail(segments), include_timestamps)

format_transcript(transcript_segments, include_timestamps) ==
  IF transcript_segments = NoTranscript THEN << >>
  ELSE Strip(FormatSegments(transcript_segments, include_timestamps))

\* The content of the system message
SystemContent(transcript_segments) ==
  <<"You are an AI assistant ... Here is the transcript of the video:\n\n">>
  \o format_transcript(transcript_segments, FALSE)
  \o <<"\n\nAnswer questions based only on the content of this transcript. ...">>

\* The user and assistant messages of the exchanges of chat_history
RECURSIVE HistoryMessages(_)
HistoryMessages(chat_history) ==
  IF chat_history = << >> THEN << >>
  ELSE <<[role |-> "user", content |-> chat_history[1][1]],
         [role |-> "assistant", content |-> chat_history[1][2]]>>
       \o HistoryMessages(Tail(chat_history))

\* messages of chat_with_transcript
Messages(transcript_segments, prompt, chat_history) ==
  <<[role |-> "system", content |-> SystemContent(transcript_segments)]>>
  \o HistoryMessages(chat_history)
  \o <<[role |-> "user", content |-> prompt]>>

\* api_data is None
NoneData == [prompt |-> << >>, response |-> << >>]

ModelOutcomes == {"ok", "raises"}

\* chat_with_transcript with the outcome of client.chat.completions.create
chat_with_transcript(transcript_segments, prompt, chat_history, outcome) ==
  IF outcome = "ok"
    THEN [ai_response |-> <<"answer">>,
          api_data |-> [prompt |-> Messages(transcript_segments, prompt, chat_history),
                        response |-> <<"answer">>]]
    ELSE [ai_response |-> <<"Error: ", "api">>, api_data |-> NoneData]

\* chat_history[-5:] with every exchange kept
LastExchangesAll(chat_history) == chat_history

\* st.session_state.chat_history[-5:] if st.session_state.chat_history else None
LastExchanges(chat_history) ==
  SubSeq(chat_history, IF Len(chat_history) > 5 THEN Len(chat_history) - 4 ELSE 1, Len(chat_history))

\* What the block under `if st.session_state.video_id != video_id` does:
\*   create_raises   get_session raises
\*   connect_raises  no ws_endpoint, or connect_over_cdp / new_context /
\*                   new_page raises
\*   press_raises    page.keyboard.press raises, after the title was stored
\*   no_transcript   get_youtube_transcript returns None or an empty list
\*   ok              the transcript is returned
FetchOutcomes == {"create_raises", "connect_raises", "press_raises", "no_transcript", "ok"}

\* get_video_info: the title, or "Unknown Video" after an exception
TitleOutcomes == {"title", "unknown"}

get_video_info(video_id, outcome) ==
  IF outcome = "title" THEN TitleOf(video_id) ELSE "Unknown Video"

\* The fetch block for the video id of the URL: session_state afterwards,
\* whether a session was created, whether the run ended with an exception
YtFetch(video_id, fo, to) ==
  [transcript |-> IF fo = "ok" THEN Transcript(video_id) ELSE y_transcript,
   video_title |-> IF fo \in {"press_raises", "no_transcript", "ok"}
                     THEN get_video_info(video_id, to) ELSE y_video_title,
   video_id |-> IF fo = "ok" THEN video_id ELSE y_video_id,
   created |-> fo # "create_raises",
   raised |-> fo \in {"create_raises", "connect_raises", "press_raises"},
   errors |-> (IF fo \in {"press_raises", "no_transcript", "ok"} /\ to = "unknown"
                 THEN {"error_getting_video_info"} ELSE {})
              \cup (IF fo = "no_transcript" THEN {"failed_to_retrieve_transcript"} ELSE {})]

\* `if st.session_state.video_id != video_id` with a test that always holds
YtNeedsFetchAlways(video_id) == TRUE

\* `if st.session_state.video_id != video_id`
YtNeedsFetch(video_id) == y_video_id # video_id

\* session_state when the script reaches `if st.session_state.transcript:`
YtFetched(url, fo, to) ==
  IF YtNeedsFetch(extract_video_id(url))
    THEN YtFetch(extract_video_id(url), fo, to)
    ELSE [transcript |-> y_transcript, video_title |-> y_video_title,
          video_id |-> y_video_id, created |-> FALSE, raised |-> FALSE,
          errors |-> {}]

\* The script reaches the chat block
YtChatShown(url, fo, to) ==
  /\ ~YtFetched(url, fo, to).raised
  /\ YtFetched(url, fo, to).transcript # NoTranscript

\* The video a transcript belongs to
VideoOf(transcript) == CHOOSE v \in YtVideos : Transcript(v) = transcript

\* Clear Chat History that empties chat_history only
YtClearedApiKept(api_history) == api_history

\* Clear Chat History: st.session_state.api_history = []
YtClearedApi(api_history) == << >>

\* One run of the script.  user_question is << >> when nothing was
\* submitted; clear says that Clear Chat History was pressed.
YtRun(event, url, user_question, clear, fo, to, mo) ==
  /\ y_event' = event
  /\ y_url' = url
  /\ y_entries' = (IF event = "url" THEN y_entries + 1 ELSE y_entries)
  /\ IF url = << >>
       THEN /\ UNCHANGED <<y_keys, y_transcript, y_video_title, y_video_id, y_chat_history, y_api_history, y_about>>
            /\ y_fetch' = "none" /\ y_created' = FALSE /\ y_request' = << >>
            /\ y_errors' = {} /\ y_shown' = FALSE /\ y_rerun' = FALSE
     ELSE IF extract_video_id(url) = "None"
       THEN /\ UNCHANGED <<y_keys, y_transcript, y_video_title, y_video_id, y_chat_history, y_api_history, y_about>>
            /\ y_fetch' = "none" /\ y_created' = FALSE /\ y_request' = << >>
            /\ y_errors' = {"invalid_url"} /\ y_shown' = FALSE /\ y_rerun' = FALSE
     ELSE /\ y_transcript' = YtFetched(url, fo, to).transcript
          /\ y_video_title' = YtFetched(url, fo, to).video_title
          /\ y_video_id' = YtFetched(url, fo, to).video_id
          /\ y_created' = YtFetched(url, fo, to).created
          /\ y_fetch' = (IF YtNeedsFetch(extract_video_id(url)) THEN fo ELSE "none")
          /\ y_errors' = YtFetched(url, fo, to).errors
          /\ y_keys' = y_keys \cup {"transcript", "api_history"}
                         \cup (IF YtChatShown(url, fo, to) THEN {"chat_history"} ELSE {})
          /\ IF YtChatShown(url, fo, to) /\ user_question # << >>
               THEN /\ y_request' = Messages(y_transcript', user_question, LastExchanges(y_chat_history))
                    /\ y_api_history' =
                         (IF chat_with_transcript(y_transcript', user_question, LastExchanges(y_chat_history), mo).api_data # NoneData
                            THEN Append(y_api_history, chat_with_transcript(y_transcript', user_question, LastExchanges(y_chat_history), mo).api_data)
                            ELSE y_api_history)
                    /\ y_chat_history' = Append(y_chat_history, <<user_question, chat_with_transcript(y_transcript', user_question, LastExchanges(y_chat_history), mo).ai_response>>)
                    /\ y_about' = Append(y_about, VideoOf(y_transcript'))
                    /\ y_shown' = FALSE
                    /\ y_rerun' = TRUE
             ELSE IF YtChatShown(url, fo, to) /\ clear
               THEN /\ y_request' = << >>
                    /\ y_chat_history' = << >>
                    /\ y_api_history' = YtClearedApi(y_api_history)
                    /\ y_about' = << >>
                    /\ y_shown' = TRUE
                    /\ y_rerun' = TRUE
             ELSE /\ y_request' = << >>
                  /\ UNCHANGED <<y_chat_history, y_api_history, y_about>>
                  /\ y_shown' = YtChatShown(url, fo, to)
                  /\ y_rerun' = FALSE
  /\ UNCHANGED notYoutube

\* The questions the user asks, one after the other
YtQuestions == <<"q1", "q2", "q3">>

\* The question asked when chat_history holds n exchanges
YtQuestion(n) == <<YtQuestions[(n % Len(YtQuestions)) + 1]>>

\* The outcomes of the fetch block that a run with this URL can tell apart
FetchChoices(url) ==
  IF url # << >> /\ extract_video_id(url) # "None" /\ YtNeedsFetch(extract_video_id(url))
    THEN FetchOutcomes ELSE {"ok"}

TitleChoices(url, fo) ==
  IF FetchChoices(url) = FetchOutcomes /\ fo \in {"press_raises", "no_transcript", "ok"}
    THEN TitleOutcomes ELSE {"title"}

\* The outcomes of the model call: at most MaxApiErrors of the exchanges of
\* chat_history are without an API record
ModelChoices ==
  IF Len(y_chat_history) - Len(y_api_history) < MaxApiErrors
    THEN ModelOutcomes ELSE {"ok"}

\* The user enters another URL (or empties the input)
YtEnterUrl ==
  /\ ~y_rerun
  /\ y_entries < MaxUrlEntries
  /\ \E url \in YtUrls \ {y_url} : \E fo \in FetchChoices(url) : \E to \in TitleChoices(url, fo) :
       YtRun("url", url, << >>, FALSE, fo, to, "ok")

\* The user submits a question in the chat input
YtAsk ==
  /\ ~y_rerun
  /\ y_shown
  /\ Len(y_chat_history) <= MaxHistory
  /\ \E mo \in ModelChoices : \E fo \in FetchChoices(y_url) : \E to \in TitleChoices(y_url, fo) :
       YtRun("ask", y_url, YtQuestion(Len(y_chat_history)), FALSE, fo, to, mo)

\* The user presses Clear Chat History
YtClear ==
  /\ ~y_rerun
  /\ y_shown
  /\ \E fo \in FetchChoices(y_url) : \E to \in TitleChoices(y_url, fo) :
       YtRun("clear", y_url, << >>, TRUE, fo, to, "ok")

\* The user toggles one of the check boxes
YtToggle ==
  /\ ~y_rerun
  /\ y_shown
  /\ \E fo \in FetchChoices(y_url) : \E to \in TitleChoices(y_url, fo) :
       YtRun("toggle", y_url, << >>, FALSE, fo, to, "ok")

\* The run that st.rerun() asked for
YtRerun ==
  /\ y_rerun
  /\ \E fo \in FetchChoices(y_url) : \E to \in TitleChoices(y_url, fo) :
       YtRun("rerun", y_url, << >>, FALSE, fo, to, "ok")

YoutubeNext == YtEnterUrl \/ YtAsk \/ YtClear \/ YtToggle \/ YtRerun

(***************************************************************************)
(* process_screenshot and crop_screenshot (budget travel agent and daytrip *)
(* planner).  A file holds a box <<left, top, right, bottom>> of the       *)
(* capture.                                                                *)
(***************************************************************************)
max_dimension == 2048

\* Widths and heights of the captures of the model
CaptureSizes == {1, 1024, max_dimension - 1, max_dimension, max_dimension + 1, 2 * max_dimension}

Min(a, b) == IF a < b THEN a ELSE b

\* `if width > max_dimension and height > max_dimension`
ExceedsBoth(width, height) == width > max_dimension /\ height > max_dimension

\* `if width > max_dimension or height > max_dimension`
Exceeds(width, height) == width > max_dimension \/ height > max_dimension

\* The crop box of crop_screenshot: (left, top, right, bottom)
CropBox(width, height) ==
  <<0, 0, Min(width, Min(width, max_dimension)), Min(height, Min(height, max_dimension))>>

\* img.crop(box) of an image that holds the box `held` of the capture
Crop(held, box) ==
  <<held[1] + box[1], held[2] + box[2], held[1] + box[3], held[2] + box[4]>>

\* tempfile.NamedTemporaryFile(delete=False): a new, empty file
NewFile(files) == (Cardinality(DOMAIN files) + 1) :> <<0, 0, 0, 0>>

\* os.unlink(path)
Unlink(files, path) == [f \in DOMAIN files \ {path} |-> files[f]]

\* process_screenshot up to Image.open: the budget agent writes the bytes of
\* the capture to a new temporary file, the daytrip planner is given the file
ProcessOpen ==
  /\ i_pc = "start"
  /\ i_pc' = "opened"
  /\ IF i_app = "budget"
       THEN /\ i_files' = i_files @@ ((Cardinality(DOMAIN i_files) + 1) :> <<0, 0, i_width, i_height>>)
            /\ i_path' = Cardinality(DOMAIN i_files) + 1
       ELSE /\ i_files' = i_files
            /\ i_path' = 1
  /\ UNCHANGED <<i_app, i_width, i_height, i_ret>>
  /\ UNCHANGED notImage

\* The size test: the file is returned as it is, or crop_screenshot is called
\* and creates its temporary file
ProcessDecide ==
  /\ i_pc = "opened"
  /\ IF Exceeds(i_files[i_path][3] - i_files[i_path][1], i_files[i_path][4] - i_files[i_path][2])
       THEN /\ i_pc' = "cropping"
            /\ i_files' = i_files @@ NewFile(i_files)
            /\ i_ret' = i_ret
       ELSE /\ i_pc' = "done"
            /\ i_files' = i_files
            /\ i_ret' = i_path
  /\ UNCHANGED <<i_app, i_width, i_height, i_path>>
  /\ UNCHANGED notImage

\* img.crop(...) and cropped_img.save(...) into the new file; save may raise
CropSave ==
  /\ i_pc = "cropping"
  /\ \E ok \in BOOLEAN :
       IF ok
         THEN /\ i_pc' = "saved"
              /\ i_files' = [i_files EXCEPT ![Cardinality(DOMAIN i_files)] =
                               Crop(i_files[i_path],
                                    CropBox(i_files[i_path][3] - i_files[i_path][1],
                                            i_files[i_path][4] - i_files[i_path][2]))]
         ELSE /\ i_pc' = "raised"
              /\ i_files' = i_files
  /\ UNCHANGED <<i_app, i_width, i_height, i_path, i_ret>>
  /\ UNCHANGED notImage

\* os.unlink(screenshot_path) and the return of the new path
CropReturn ==
  /\ i_pc = "saved"
  /\ i_pc' = "done"
  /\ i_files' = Unlink(i_files, i_path)
  /\ i_ret' = Cardinality(DOMAIN i_files)
  /\ UNCHANGED <<i_app, i_width, i_height, i_path>>
  /\ UNCHANGED notImage

ImageNext == ProcessOpen \/ ProcessDecide \/ CropSave \/ CropReturn

(***************************************************************************)
(* take_screenshot (budget travel agent): the remote session               *)
(***************************************************************************)
\* The statements of the try block that can end the call
TakeSteps ==
  <<"goto", "main", "where_from", "fill_from", "where_to", "fill_to",
    "weekend_filter", "spinner_element", "spinner_wait", "adjust_viewport",
    "create_screenshot", "set_viewport_size", "process_screenshot">>

\* The statements followed by `st.error(...); return`, with the error text
EarlyReturns ==
  [main |-> "could_not_get_locations",
   where_from |-> "explore_page_did_not_load",
   where_to |-> "explore_page_did_not_load",
   weekend_filter |-> "could_not_set_duration_filter",
   spinner_element |-> "could_not_capture_screenshot",
   spinner_wait |-> "could_not_capture_screenshot",
   adjust_viewport |-> "could_not_get_screenshot",
   create_screenshot |-> "could_not_get_screenshot"]

\* What a statement of the try block can do
StepOutcomes(step) ==
  {"next", "raises"} \cup (IF step \in DOMAIN EarlyReturns THEN {"returns"} ELSE {})

\* The call starts: sessions.create, then the test of session.ws_endpoint
TakeCreate ==
  /\ k_pc = "idle"
  /\ k_calls < MaxCalls
  /\ k_calls' = k_calls + 1
  /\ k_step' = 0
  /\ k_pending' = "none"
  /\ \E has_end \in BOOLEAN, outcome \in {"raises", "no_ws_endpoint", "session"} :
       /\ k_end_location' = has_end
       /\ IF outcome = "raises"
            THEN /\ k_session' = 0
                 /\ k_live' = k_live
                 /\ k_ret' = "raised"
                 /\ k_errors' = {}
                 /\ k_pc' = "idle"
            ELSE /\ k_session' = k_calls + 1
                 /\ k_live' = k_live \cup {k_calls + 1}
                 /\ IF outcome = "no_ws_endpoint"
                      THEN /\ k_ret' = "None"
                           /\ k_errors' = {"could_not_create_session"}
                           /\ k_pc' = "idle"
                      ELSE /\ k_ret' = "none"
                           /\ k_errors' = {}
                           /\ k_pc' = "connect"
  /\ UNCHANGED notTake

\* connect_over_cdp, new_context, new_page: before the try block
TakeConnect ==
  /\ k_pc = "connect"
  /\ \E ok \in BOOLEAN :
       IF ok
         THEN /\ k_pc' = "try"
              /\ k_step' = 1
              /\ k_ret' = k_ret
         ELSE /\ k_pc' = "idle"
              /\ k_step' = k_step
              /\ k_ret' = "raised"
  /\ UNCHANGED <<k_end_location, k_calls, k_session, k_live, k_pending, k_errors>>
  /\ UNCHANGED notTake

\* One statement of the try block; `except Exception` turns an exception
\* into st.error and `return None`
TakeStep ==
  /\ k_pc = "try"
  /\ IF TakeSteps[k_step] = "fill_to" /\ ~k_end_location
       THEN /\ k_step' = k_step + 1
            /\ UNCHANGED <<k_pc, k_pending, k_errors>>
       ELSE \E outcome \in StepOutcomes(TakeSteps[k_step]) :
              IF outcome = "next" /\ k_step < Len(TakeSteps)
                THEN /\ k_step' = k_step + 1
                     /\ UNCHANGED <<k_pc, k_pending, k_errors>>
                ELSE /\ k_step' = k_step
                     /\ k_pc' = "finally"
                     /\ k_pending' = (IF outcome = "next" THEN "path" ELSE "None")
                     /\ k_errors' = (IF outcome = "returns"
                                       THEN {EarlyReturns[TakeSteps[k_step]]}
                                     ELSE IF outcome = "raises"
                                       THEN {"error_during_browser_automation"}
                                     ELSE {})
  /\ UNCHANGED <<k_end_location, k_calls, k_session, k_live, k_ret>>
  /\ UNCHANGED notTake

\* finally: client.sessions.stop(session.id); when it raises, the exception
\* replaces the pending return
TakeFinally ==
  /\ k_pc = "finally"
  /\ k_pc' = "idle"
  /\ \E ok \in BOOLEAN :
       IF ok
         THEN /\ k_live' = k_live \ {k_session}
              /\ k_ret' = k_pending
         ELSE /\ k_live' = k_live
              /\ k_ret' = "raised"
  /\ UNCHANGED <<k_step, k_end_location, k_calls, k_session, k_pending, k_errors>>
  /\ UNCHANGED notTake

TakeNext == TakeCreate \/ TakeConnect \/ TakeStep \/ TakeFinally

(***************************************************************************)
(* Specifications                                                          *)
(***************************************************************************)
\* The state after start-up.  `app` names the application under study: its
\* inputs are drawn from their sets; the other applications rest.
Init(app) ==
  \* budget travel agent: initialize_session_state, empty cache
  /\ from_location = EmptyStr
  /\ end_location = NoneStr
  /\ page_number = 1
  /\ search_button_clicked = FALSE
  /\ trip_duration = "Weekend"
  /\ openai_api_key \in (IF app = "budget" THEN BOOLEAN ELSE {TRUE})
  /\ screenshot_cache = [k \in ScreenshotKeys |-> "miss"]
  /\ page_input = 0
  /\ rerun = FALSE
  /\ b_msg = "idle"
  /\ b_created = FALSE
  /\ b_travel_data = << >>
  /\ b_tabs = << >>
  /\ b_key = << >>
  \* changelog builder: before generate_openai_changelog is called
  /\ r_pc = "idle"
  /\ r_has_data \in (IF app = "retry" THEN BOOLEAN ELSE {TRUE})
  /\ r_has_key \in (IF app = "retry" THEN BOOLEAN ELSE {TRUE})
  /\ r_script \in (IF app = "retry" THEN [1..ScriptLen -> ApiOutcomes]
                                     ELSE {[k \in 1..ScriptLen |-> "ok"]})
  /\ r_attempt = 1
  /\ r_calls = 0
  /\ r_waits = << >>
  /\ r_raised = ""
  /\ r_result = << >>
  \* validate_city: before the call
  /\ v_city_name \in (IF app = "validate" THEN CityNames ELSE {Madrid})
  /\ v_response \in (IF app = "validate" THEN GeocoderResponses
                                         ELSE {[failed |-> FALSE, data |-> << >>]})
  /\ v_result = "pending"
  \* article to speech: no content yet
  /\ a_url = ""
  /\ a_article_content = NoArticle
  /\ a_payload = [failed |-> TRUE, title |-> Missing, fullContent |-> Missing,
                  author |-> Missing, abstract |-> Missing]
  /\ a_msg = {}
  \* display_travel_data: a list, page_number as initialize_session_state
  \* leaves it, nothing displayed yet
  /\ pg_app \in (IF app = "paginate" THEN PaginateApps ELSE {"budget"})
  /\ pg_list \in (IF app = "paginate" THEN PaginateLists ELSE {<< >>})
  /\ pg_page_number = 1
  /\ pg_out = << >>
  /\ pg_pages = [p \in 1..(MaxDestinations \div page_size + 1) |-> << >>]
  \* daytrip planner: initialize_session_state, empty caches
  /\ d_input = EmptyStr
  /\ d_has_key \in (IF app = "daytrip" THEN BOOLEAN ELSE {TRUE})
  /\ d_from_location = EmptyStr
  /\ d_page_number = 1
  /\ d_selected_destination = 0
  /\ d_show_modal = FALSE
  /\ d_ws = "miss"
  /\ d_capture = [k \in DaytripKeys |-> "miss"]
  /\ d_extract = [k \in DaytripKeys |-> NotExtracted]
  /\ d_event = "start"
  /\ d_before = 1
  /\ d_recomputed = FALSE
  /\ d_msg = "idle"
  /\ d_travel_data = << >>
  /\ d_tabs = << >>
  /\ d_page_input = 0
  /\ d_rerun = FALSE
  \* tweet fetcher: no process has run yet
  /\ t_cmd = "none"
  /\ t_pc = "idle"
  /\ t_kind = "tweets"
  /\ t_env_profile \in (IF app = "tweet" THEN {0, ConfiguredProfile} ELSE {0})
  /\ t_profile_file = 0
  /\ t_settings_profile = 0
  /\ t_profiles = 0
  /\ t_sessions = 0
  /\ t_live = {}
  /\ t_session_file \in (IF app = "tweet"
                           THEN {NoSessionFile, [exists |-> TRUE, session_id |-> 0]}
                           ELSE {NoSessionFile})
  /\ t_tweets_file = "absent"
  /\ t_followers_file = "absent"
  /\ t_last_written = 0
  /\ t_before = NoSessionFile
  /\ t_written = {}
  /\ t_used = << >>
  /\ t_created = 0
  /\ t_outstanding = 0
  /\ t_failed = {}
  /\ t_stops = << >>
  /\ t_exit = "ok"
  /\ t_report = ""
  \* take_screenshot at `isVisible = True`, before the loop
  /\ s_pc = "loop"
  /\ s_script \in (IF app = "spinner" THEN SpinnerScripts
                                      ELSE {[k \in 1..(spinner_polls + 1) |-> FALSE]})
  /\ s_i = 0
  /\ s_isVisible = TRUE
  /\ s_polls = 0
  /\ s_ret = "running"
  /\ s_error = ""
  \* generate_categorized_changelog before the loop over the commits
  /\ c_pc = "loop"
  /\ c_commits \in (IF app = "categorize" THEN CommitLists ELSE {<< >>})
  /\ c_i = 0
  /\ c_lists = [k \in {"Features", "Bug Fixes", "Documentation", "Refactoring",
                       "Tests", "Other Changes"} |-> << >>]
  /\ c_out = << >>
  \* chat-with-youtube: a new browser session, nothing entered
  /\ y_url = << >>
  /\ y_keys = {}
  /\ y_transcript = << >>
  /\ y_video_title = "None"
  /\ y_video_id = "None"
  /\ y_chat_history = << >>
  /\ y_api_history = << >>
  /\ y_about = << >>
  /\ y_event = "start"
  /\ y_fetch = "none"
  /\ y_created = FALSE
  /\ y_request = << >>
  /\ y_errors = {}
  /\ y_entries = 0
  /\ y_shown = FALSE
  /\ y_rerun = FALSE
  \* process_screenshot is called with a capture; in the daytrip planner
  \* create_screenshot has written it to a temporary file already
  /\ i_app \in (IF app = "image" THEN {"budget", "daytrip"} ELSE {"budget"})
  /\ i_width \in (IF app = "image" THEN CaptureSizes ELSE {1})
  /\ i_height \in (IF app = "image" THEN CaptureSizes ELSE {1})
  /\ i_pc = "start"
  /\ i_files = (IF i_app = "daytrip" THEN (1 :> <<0, 0, i_width, i_height>>) ELSE << >>)
  /\ i_path = 0
  /\ i_ret = 0
  \* take_screenshot has not been called
  /\ k_pc = "idle"
  /\ k_step = 0
  /\ k_end_location = FALSE
  /\ k_calls = 0
  /\ k_session = 0
  /\ k_live = {}
  /\ k_ret = "none"
  /\ k_pending = "none"
  /\ k_errors = {}

SpecPaginate == Init("paginate") /\ [][PaginateNext]_vars

SpecDaytrip == Init("daytrip") /\ [][DaytripNext]_vars

SpecBudget == Init("budget") /\ [][BudgetNext]_vars

SpecRetry == Init("retry") /\ [][RetryNext]_vars

SpecValidate == Init("validate") /\ [][ValidateNext]_vars

SpecArticle == Init("article") /\ [][ArticleNext]_vars

SpecTweet == Init("tweet") /\ [][TweetNext]_vars

SpecSpinner == Init("spinner") /\ [][SpinnerNext]_vars

SpecCategorize == Init("categorize") /\ [][CategorizeNext]_vars

SpecYoutube == Init("youtube") /\ [][YoutubeNext]_vars

SpecImage == Init("image") /\ [][ImageNext]_vars

SpecTake == Init("take") /\ [][TakeNext]_vars

(***************************************************************************)
(* display_travel_data: claims                                             *)
(***************************************************************************)
\* The pages 1..n kept in `pages`, one after the other
RECURSIVE ConcatPages(_, _)
ConcatPages(pages, n) ==
  IF n = 0 THEN << >> ELSE ConcatPages(pages, n - 1) \o pages[n]

\* The number of pages the last call worked with: max_value of the Page
\* control, one page when it rendered no control
PagesOffered == IF pg_out.page_input > 0 THEN pg_out.page_input ELSE 1

\* C1: for a list of N >= 1 destinations the number of pages is ceil(N/5);
\* page p shows the non-empty slice from (p-1)*5 to min(p*5, N); once every
\* page was shown, the pages in order are the list, each entry once, in the
\* original order.  For N = 0 nothing is rendered and False is returned.
C1_PagesPartitionList ==
  pg_out # << >> =>
    IF Len(pg_list) = 0
      THEN /\ ~pg_out.ret
           /\ pg_out.tabs = << >>
           /\ \A p \in DOMAIN pg_pages : pg_pages[p] = << >>
      ELSE /\ ~pg_out.raised
           /\ PagesOffered * 5 >= Len(pg_list)
           /\ (PagesOffered - 1) * 5 < Len(pg_list)
           /\ \A p \in DOMAIN pg_pages :
                pg_pages[p] # << >> =>
                  /\ p <= PagesOffered
                  /\ pg_pages[p] =
                       [i \in 1..((IF p * 5 < Len(pg_list) THEN p * 5
                                   ELSE Len(pg_list)) - (p - 1) * 5) |->
                          pg_list[(p - 1) * 5 + i]]
           /\ (\A p \in 1..PagesOffered : pg_pages[p] # << >>)
                => ConcatPages(pg_pages, PagesOffered) = pg_list

C1_Witness ==
  /\ Len(pg_list) = 11
  /\ pg_out # << >>
  /\ \A p \in 1..3 : pg_pages[p] # << >>
  /\ Len(pg_pages[3]) = 1

(***************************************************************************)
(* Daytrip planner: claims                                                 *)
(***************************************************************************)
\* C4: a run whose validated city differs from the stored from_location
\* leaves page_number at 1 and, if it displays results, displays page 1; and
\* page_number changes only to 1 in such a run or in a run that recomputed a
\* capture or an extraction, or to the page the user set in the Page control.
C4_PageResetOnCityChange ==
  [][/\ (d_msg' \notin {"idle", "invalid_city"} /\ d_input' # d_from_location)
          => /\ d_page_number' = 1
             /\ d_tabs' # << >> => d_tabs' = PageSlice(d_travel_data', 1)
     /\ d_page_number' # d_page_number
          => \/ /\ d_page_number' = 1
                /\ \/ /\ d_msg' \notin {"idle", "invalid_city"}
                      /\ d_input' # d_from_location
                   \/ d_recomputed'
             \/ /\ d_event' = "page"
                /\ d_page_number' \in 1..d_page_input]_vars

C4_Witness ==
  /\ d_event = "edit"
  /\ d_before = 2
  /\ d_page_number = 1
  /\ ~d_recomputed
  /\ d_msg = "shown"
  /\ Len(d_travel_data) > 5

\* C30: show_atlas_obscura_modal implies that selected_destination is set;
\* the two change only together: a Discover button sets both, a change of
\* the starting city clears both; a change of the page changes neither.
C30_ModalHasDestination ==
  /\ [](d_show_modal => d_selected_destination # 0)
  /\ [][/\ (d_show_modal' # d_show_modal \/ d_selected_destination' # d_selected_destination)
            => \/ /\ d_event' = "discover"
                  /\ d_show_modal'
                  /\ d_selected_destination' # 0
               \/ /\ d_from_location' # d_from_location
                  /\ ~d_show_modal'
                  /\ d_selected_destination' = 0
        /\ d_event' = "page"
            => /\ d_show_modal' = d_show_modal
               /\ d_selected_destination' = d_selected_destination]_vars

C30_Witness ==
  /\ d_event = "page"
  /\ d_show_modal
  /\ d_selected_destination # 0
  /\ d_before # d_page_number

(***************************************************************************)
(* Budget travel agent: claims                                             *)
(***************************************************************************)
\* The last run called display_travel_data
BudgetDisplayCalled == b_msg \in {"shown", "rerun", "exception_number_input"}

\* C2 (as claimed): whenever display_travel_data has been called, the stored
\* page number it hands to the page control lies in [1, num_pages] of the list
\* it displays: a stored page number outside the range is clamped into it.
C2_StoredPageClamped ==
  BudgetDisplayCalled => page_number \in 1..NumPages(Len(b_travel_data))

\* C3 (as claimed): when a search with a changed start location, destination
\* or trip duration displays a different destination list, page_number is 1
\* at that first display, whatever the page of the previous list was.
C3_NewSearchShowsPageOne ==
  [][(b_msg' = "shown" /\ b_key # << >> /\ b_key' # b_key
        /\ b_travel_data' # b_travel_data)
       => page_number' = 1]_vars

\* The last run got past the empty-start test of a search
BudgetSearched == b_msg \notin {"idle", "enter_start"}

\* C8 (as claimed): a search whose starting location, or non-empty
\* destination, validate_city rejects shows the invalid-location error and
\* creates no remote browser session.
C8_InvalidLocationAborts ==
  (BudgetSearched
     /\ (\/ ~ValidateCityBudget(from_location).valid
         \/ end_location # NoneStr /\ ~ValidateCityBudget(end_location).valid))
    => (b_msg \in {"invalid_start", "invalid_end"} /\ ~b_created)

(***************************************************************************)
(* Changelog builder: claims                                               *)
(***************************************************************************)
\* generate_openai_changelog got past its early returns and has returned
RetryFinished == r_pc = "done" /\ r_has_data /\ r_has_key

\* C5: when the API fails transiently on the first two requests and answers
\* the third, call_openai_api returns that answer (it reaches the changelog)
\* and exactly 3 requests were sent.
C5_TwoFailuresThenSuccess ==
  (RetryFinished /\ r_script[1] = "transient" /\ r_script[2] = "transient"
     /\ r_script[3] \in {"ok", "ok_empty"})
    => /\ r_calls = 3
       /\ r_raised = ""
       /\ r_result = <<"# repo Changelog (AI-Generated)", Completion(r_script[3])>>

C5_Witness ==
  /\ RetryFinished
  /\ r_script[1] = "transient" /\ r_script[2] = "transient" /\ r_script[3] = "ok"
  /\ r_calls = 3
  /\ r_waits = <<2, 2>>

\* C6: when every request fails, never more than 3 requests are sent; once
\* the call is over exactly 3 were sent, call_openai_api raised, and
\* generate_openai_changelog returned "Error generating AI changelog: ...".
C6_AllAttemptsFail ==
  (r_has_data /\ r_has_key /\ \A k \in 1..ScriptLen : r_script[k] \in ApiFailures)
    => /\ r_calls <= 3
       /\ r_pc = "done" =>
            /\ r_calls = 3
            /\ r_raised # ""
            /\ Len(r_result) = 2
            /\ r_result[1] = "Error generating AI changelog: "

C6_Witness ==
  /\ RetryFinished
  /\ \A k \in 1..ScriptLen : r_script[k] = "transient"
  /\ r_calls = 3
  /\ r_raised = "RetryError"

\* C7 (as claimed): a call whose first request fails with a rejected request
\* or a rejected credential sends exactly one request, never sleeps, and
\* surfaces that error.
C7_NonTransientNotRetried ==
  (RetryFinished /\ r_script[1] \in {"invalid_request", "authentication"})
    => /\ r_calls = 1
       /\ r_waits = << >>
       /\ r_raised = r_script[1]

(***************************************************************************)
(* validate_city: claims                                                   *)
(***************************************************************************)
\* C9: validate_city returns True exactly when the geocoder's first result
\* exists and its addresstype contains "city", or contains "town" while its
\* display_name equals the input ignoring case; otherwise (also with no
\* result or a failed lookup) it returns False, and it never raises.
C9_ValidateCity ==
  v_result # "pending" =>
    v_result =
      (IF /\ ~v_response.failed
          /\ Len(v_response.data) >= 1
          /\ \/ Contains(city, v_response.data[1].addresstype)
             \/ /\ Contains(town, v_response.data[1].addresstype)
                /\ Lower(v_response.data[1].display_name) = Lower(v_city_name)
        THEN "True" ELSE "False")

C9_Witness ==
  /\ v_result = "True"
  /\ v_response.data[1].addresstype = town
  /\ v_response.data[1].display_name # v_city_name

(***************************************************************************)
(* Article to speech: claims                                               *)
(***************************************************************************)
\* The last run pressed Extract with a URL and the job delivered a mapping
ArticleExtracted == "extracting" \in a_msg /\ ~a_payload.failed

\* C10 (as claimed): a payload without title or fullContent yields a
\* schema-violation error and no ArticleContent; a payload holding all fields
\* yields an ArticleContent with exactly those values.
C10_RequiredFieldsEnforced ==
  ArticleExtracted =>
    /\ (a_payload.title = Missing \/ a_payload.fullContent = Missing)
         => (a_article_content.none /\ "schema_violation" \in a_msg)
    /\ (Missing \notin {a_payload.title, a_payload.fullContent,
                         a_payload.author, a_payload.abstract})
         => a_article_content =
              [none |-> FALSE, title |-> a_payload.title,
               full_content |-> a_payload.fullContent,
               author |-> a_payload.author, abstract |-> a_payload.abstract]

\* C11 (as claimed): after an Extract with a URL whose extraction failed
\* (article_content is None) the page shows an error message.
C11_FailedExtractionReported ==
  ("extracting" \in a_msg /\ a_article_content.none)
    => a_msg \cap ArticleErrorMessages # {}

C12_MissingKeyAborts ==
  (~openai_api_key /\ BudgetSearched)
    => /\ ~b_created
       /\ \A k \in ScreenshotKeys : screenshot_cache[k] # "shot"

(***************************************************************************)
(* Tweet fetcher: claims                                                   *)
(***************************************************************************)
\* C13 (as claimed): in a run of `all` every extraction uses one and the same
\* profile id, the run creates at most one remote profile, and an id the run
\* wrote to .profile is the id its extractions used.
C13_OneProfilePerRun ==
  t_cmd = "all" =>
    /\ \A i, j \in DOMAIN t_used : t_used[i] = t_used[j]
    /\ t_created <= 1
    /\ ".profile" \in t_written => \A i \in DOMAIN t_used : t_used[i] = t_profile_file

\* The result file of the extraction a `tweets` or `followers` process runs
TweetResultFile == IF t_cmd = "tweets" THEN "tweets.json" ELSE "followers.json"

\* C14 (as claimed): a `tweets` or `followers` process writes no file but its
\* own result file, and that one only when its extraction has returned and has
\* not failed; .session is as the process found it.
C14_OnlyResultFileWritten ==
  t_cmd \in {"tweets", "followers"} =>
    /\ t_written \subseteq {TweetResultFile}
    /\ TweetResultFile \in t_written => (t_exit = "ok" /\ t_failed = {})
    /\ t_session_file = t_before

\* C15 (as claimed): in a run of `all` at most one remote call is outstanding,
\* extract_followers is entered only when the tweets extraction has written
\* <handle>_tweets.json, and never when the tweets extraction failed.
C15_ExtractionsInSequence ==
  t_cmd = "all" =>
    /\ t_outstanding <= 1
    /\ t_kind = "followers" =>
         /\ "tweets.json" \in t_written
         /\ "tweets" \notin t_failed

\* C16: `stop` without --session-id, when .session does not exist or holds no
\* session_id, calls client.sessions.stop for no id, writes and removes no
\* file, reports that no session was found and returns normally.
C16_StopWithoutSession ==
  (t_cmd = "stop" /\ (~t_before.exists \/ t_before.session_id = 0))
    => /\ t_stops = << >>
       /\ t_written = {}
       /\ t_session_file = t_before
       /\ t_exit = "ok"
       /\ t_report = (IF t_before.exists THEN "no_session_id"
                                         ELSE "no_active_session")

C16_Witness ==
  /\ t_cmd = "stop"
  /\ t_before.exists
  /\ t_before.session_id = 0
  /\ t_report = "no_session_id"
  /\ t_exit = "ok"

\* C17: `stop` without --session-id asks the service to stop only the id the
\* last successful `session` command wrote to .session; when that call
\* succeeds .session is gone, when it raises .session is left as it was; and
\* with no .session the command makes no remote call.
C17_StopLastSession ==
  t_cmd = "stop" =>
    /\ t_stops # << >> =>
         /\ t_stops = << t_last_written >>
         /\ t_before = [exists |-> TRUE, session_id |-> t_last_written]
         /\ t_exit = "ok" => ~t_session_file.exists
         /\ t_exit = "raised" => t_session_file = t_before
    /\ ~t_before.exists => t_stops = << >>

C17_Witness ==
  /\ t_cmd = "stop"
  /\ t_stops = << 2 >>
  /\ t_last_written = 2
  /\ t_exit = "ok"
  /\ ~t_session_file.exists

\* C26: `stop --session-id X` removes .session only when .session holds X;
\* when it holds another id the file is left as it was.
C26_StopOtherKeepsRecord ==
  (t_cmd = "stop_id" /\ t_before.exists /\ t_stops # << >>)
    => /\ ~t_session_file.exists => t_before.session_id = t_stops[1]
       /\ t_before.session_id # t_stops[1] => t_session_file = t_before

(***************************************************************************)
(* take_screenshot: claims                                                 *)
(***************************************************************************)
\* C18: take_screenshot polls the spinner at most 10 times; when the 10th
\* poll still sees it, the call reports "Could not capture the screenshot"
\* and returns None; it never returns a screenshot when the last poll saw
\* the spinner.
C18_SpinnerWaitBounded ==
  /\ s_polls <= 10
  /\ (s_pc = "done" /\ s_polls = 10 /\ s_isVisible)
       => (s_ret = "none" /\ s_error # "")
  /\ (s_pc = "done" /\ s_i = 10)
       => (s_ret = "none" /\ s_error = "Could not capture the screenshot")
  /\ s_ret = "shot" => ~s_isVisible

C18_Witness ==
  /\ s_pc = "done"
  /\ s_polls = 10
  /\ s_isVisible
  /\ s_ret = "none"
  /\ s_error = "Could not capture the screenshot"

(***************************************************************************)
(* Changelog builder: waits between attempts                               *)
(***************************************************************************)
\* C19: the wait before retry k is min(10, max(2, 2^(k-1))) seconds; every
\* wait lies in [2, 10], no wait is shorter than the one before, there are at
\* most 2 waits, one fewer than requests sent once the call is over, and
\* none follows the 3rd attempt.
C19_WaitsBetweenAttempts ==
  /\ \A k \in DOMAIN r_waits :
       /\ r_waits[k] = (IF (IF 2 ^ (k - 1) > 2 THEN 2 ^ (k - 1) ELSE 2) < 10
                          THEN (IF 2 ^ (k - 1) > 2 THEN 2 ^ (k - 1) ELSE 2)
                          ELSE 10)
       /\ r_waits[k] >= 2
       /\ r_waits[k] <= 10
       /\ k > 1 => r_waits[k - 1] <= r_waits[k]
  /\ Len(r_waits) <= 2
  /\ r_calls >= 3 => r_pc # "sleep"
  /\ (r_pc = "done" /\ r_calls >= 1) => Len(r_waits) = r_calls - 1

C19_Witness ==
  /\ r_pc = "done"
  /\ r_raised = "RetryError"
  /\ r_waits = <<2, 2>>

(***************************************************************************)
(* generate_categorized_changelog: claims                                  *)
(***************************************************************************)
\* The keyword sets in priority order
KeywordsByPriority ==
  <<feature_keywords, bugfix_keywords, docs_keywords, refactor_keywords,
    test_keywords>>

\* The priorities whose keywords occur in the lower-cased message
Matching(message) ==
  {k \in 1..5 : \E kw \in KeywordsByPriority[k] : Contains(kw, Lower(message))}

\* The category the claim names for a message: the first matching one, else
\* the sixth
Expected(message) ==
  IF Matching(message) = {} THEN Categories[6]
  ELSE Categories[CHOOSE k \in Matching(message) :
                    \A j \in Matching(message) : k <= j]

\* C20: every commit handled so far is in exactly one of the six lists,
\* once, namely the list of the first category (Features, Bug Fixes,
\* Documentation, Refactoring, Tests) with a keyword in its lower-cased
\* message, else Other Changes; each list keeps the input order; and the
\* changelog has a section exactly for every non-empty list, in that order.
C20_CommitsPartitioned ==
  /\ \A n \in 1..c_i :
       \A cat \in DOMAIN c_lists :
         Cardinality({p \in DOMAIN c_lists[cat] : c_lists[cat][p] = n})
           = (IF cat = Expected(c_commits[n]) THEN 1 ELSE 0)
  /\ \A cat \in DOMAIN c_lists :
       /\ \A p \in DOMAIN c_lists[cat] : c_lists[cat][p] \in 1..c_i
       /\ \A p, q \in DOMAIN c_lists[cat] :
            p < q => c_lists[cat][p] < c_lists[cat][q]
  /\ c_pc = "done" =>
       /\ c_i = Len(c_commits)
       /\ \A cat \in DOMAIN c_lists :
            c_lists[cat] # << >> <=>
              \E p \in DOMAIN c_out :
                c_out[p] = [heading |-> cat, commits |-> c_lists[cat]]
       /\ \A p, q \in DOMAIN c_out :
            p < q => \E a, b \in 1..6 :
                       /\ a < b
                       /\ Categories[a] = c_out[p].heading
                       /\ Categories[b] = c_out[q].heading

C20_Witness ==
  /\ c_pc = "done"
  /\ Len(c_commits) = 3
  /\ c_commits[1] = <<"B", "u", "m", "p">>
  /\ c_commits[2] = <<"A", "d", "d", " ", "f", "i", "x">>
  /\ c_commits[3] = <<"R", "e", "n", "e", "w">>
  /\ c_lists["Features"] = <<2, 3>>
  /\ Len(c_out) = 2

(***************************************************************************)
(* chat-with-youtube: claims                                               *)
(***************************************************************************)
\* The run sent a request to the model
YtRequested == y_event = "ask" /\ y_request # << >>

\* chat_history when the request of the last run was made
YtHistoryBefore == SubSeq(y_chat_history, 1, Len(y_chat_history) - 1)

\* Number of exchanges the request carries
YtWindow == IF Len(YtHistoryBefore) < 5 THEN Len(YtHistoryBefore) ELSE 5

\* C21: a request holds one system message with the transcript, then the
\* user/assistant pairs of the at most 5 most recent exchanges in their
\* order, then the new question, hence at most 12 messages; the exchange of
\* the question is the last entry of chat_history and is not in the request.
C21_RequestShape ==
  YtRequested =>
    /\ Len(y_chat_history) >= 1
    /\ Len(y_request) = 2 * YtWindow + 2
    /\ Len(y_request) <= 12
    /\ y_request[1].role = "system"
    /\ \A i \in DOMAIN y_transcript :
         \E p \in DOMAIN y_request[1].content :
           y_request[1].content[p] = y_transcript[i].text
    /\ \A k \in 2..Len(y_request) : y_request[k].role # "system"
    /\ \A j \in 1..YtWindow :
         /\ y_request[2 * j] =
              [role |-> "user",
               content |-> YtHistoryBefore[Len(YtHistoryBefore) - YtWindow + j][1]]
         /\ y_request[2 * j + 1] =
              [role |-> "assistant",
               content |-> YtHistoryBefore[Len(YtHistoryBefore) - YtWindow + j][2]]
    /\ y_request[Len(y_request)] =
         [role |-> "user", content |-> y_chat_history[Len(y_chat_history)][1]]

C21_Witness ==
  /\ YtRequested
  /\ Len(y_chat_history) = 7
  /\ Len(y_request) = 12
  /\ y_chat_history[2][2] # y_chat_history[3][2]

\* C24: whenever a transcript is stored, the stored title, transcript and
\* video id are those of one video ("Unknown Video" counts as its title).
C24_OneVideoStored ==
  y_transcript # NoTranscript =>
    /\ y_video_id \in YtVideos
    /\ y_transcript = Transcript(y_video_id)
    /\ y_video_title \in {TitleOf(y_video_id), "Unknown Video"}

\* C25: every exchange sent as context with a question was asked about the
\* video whose transcript is sent.
C25_ContextOfLoadedVideo ==
  YtRequested =>
    \A j \in 1..YtWindow :
      y_about[Len(YtHistoryBefore) - YtWindow + j] = VideoOf(y_transcript)

\* C28: video_id changes only in a run whose fetch succeeded; a run whose
\* URL resolves to the stored video_id creates no session and fetches
\* nothing; a run with the URL of a failed fetch fetches again, and creates
\* a session unless the creation itself fails.
C28_FetchOnlyForNewVideo ==
  [][/\ y_video_id' # y_video_id => y_fetch' = "ok"
     /\ (y_video_id # "None" /\ extract_video_id(y_url') = y_video_id)
          => (y_fetch' = "none" /\ ~y_created' /\ y_transcript' = y_transcript)
     /\ (y_fetch \in FetchOutcomes \ {"ok"} /\ y_url' = y_url)
          => /\ y_fetch' \in FetchOutcomes
             /\ y_created' = (y_fetch' # "create_raises")]_vars

C28_Witness ==
  /\ y_event = "rerun"
  /\ y_fetch = "no_transcript"
  /\ y_created
  /\ y_transcript # NoTranscript

C23_SessionStoppedOnReturn ==
  (k_pc = "idle" /\ k_ret \in {"path", "None"} /\ k_session # 0)
    => k_session \notin k_live

====
